---- MODULE Spec2Model ----
(***************************************************************************)
(* Issue-relationship hierarchy builder of IssueService                    *)
(* (src/src/services/issueService.ts): getIssueHierarchyFromRoot (rooted   *)
(* mode) and getIssueHierarchy (forest mode).                              *)
(***************************************************************************)
EXTENDS Integers, Sequences, FiniteSets, TLC

(***************************************************************************)
(* Bounds of the model                                                     *)
(***************************************************************************)
MaxD == 2        \* caller-supplied maxDepth ranges over 1..MaxD (and "not supplied")
MaxLinks == 3    \* rooted: issuelinks listed, in total, on the records one call reads
MaxForestLinks == 2  \* forest: issuelinks listed, in total, on the records of the query
MaxMembers == 32     \* long lists: members of one epic, roots, or children of one task

EpicKeys == {"E1", "E2"}        \* issues of type 'Эпик'
TaskKeys == {"T1", "T2", "T3"}  \* issues of any other type
Keys == EpicKeys \cup TaskKeys
ForestKeys == {"E1", "T1", "T2"}  \* the keys a forest build can meet
None == "none"

DefaultMaxDepth == 10
\* inputSchema of get_issue_hierarchy_from_root: maxDepth minimum and maximum
MinDepthLimit == 1
MaxDepthLimit == 20

\* a link of an issue record, after the type / direction classification of
\* the two `if` blocks in the link loop
HierKinds == {"covers", "coveredBy", "parentOf", "childOf"}
\* the links that the record of `key` can list; "other" is any link type that
\* matches neither the Requirement nor the Parent-Child test
Links(key, universe) ==
  [kind : HierKinds, key : universe \ {key}] \cup {[kind |-> "other", key |-> None]}

VARIABLES
  mode,        \* "rooted" | "forest"
  phase,       \* position of the handler
  rootKey,     \* params.issueKey
  maxDepth,    \* const maxDepth = params.maxDepth || 10
  includeEpic, \* params.includeEpic
  issueMap,    \* node registry: key -> record (src "absent": no entry)
  issueOrder,  \* insertion order of the keys of issueMap (Object.keys order)
  epicMap,     \* epic key -> members, in push order
  epicOrder,   \* insertion order of the keys of epicMap
  coversMap,   \* covering key -> covered keys
  parentMap,   \* parent key -> child keys
  visited,     \* the Set `visited` of the recursive fetch
  stack,       \* call stack of fetchIssueHierarchy (top = last)
  response,    \* forest: keys of response.issues, in order
  pos,         \* forest: index of the running loop
  epicKeysToFetch, \* forest: the Set epicKeysToFetch, in insertion order
  epicsFetched,    \* forest: keys of epicsResponse.issues
  structure,   \* forest: answer of getStructureHierarchy
  foldersCount,\* forest: Object.keys(folderMap).length as reported
  linksRead,   \* number of issuelinks read so far (bounded by MaxLinks)
  lookups,     \* history: number of getIssue calls per key
  failed,      \* history: keys whose getIssue threw
  output,      \* rendered entries
  result,      \* "none" | "ok" | "notfound"
  otherCall    \* the locals of a second call that is suspended at an await

\* the state of a hierarchy build
hierVars == <<mode, phase, rootKey, maxDepth, includeEpic, issueMap, issueOrder,
              epicMap, epicOrder, coversMap, parentMap, visited, stack, response,
              pos, epicKeysToFetch, epicsFetched, structure, foldersCount, linksRead,
              lookups, failed, output, result, otherCall>>

VARIABLES
  \* IssueService.completeIssue
  params,        \* params of completeIssue: [issueKey, confirm]
  lastIssue,     \* what issueTracker.getLastIssue() returns (None: null)
  completePc,    \* position of completeIssue
  trackerStatus, \* status of the issue on the tracker
  workflow,      \* status -> statuses its transitions lead to
  canceledCategory, \* statusCategory.key the tracker reports for Canceled
  currentStatus, \* issue.fields.status.name of the first read
  requests,      \* history: requests sent to the tracker, in order
  chosen,        \* doneCategoryTransition.to.name
  completeResult,\* answer of completeIssue
  \* StructureService.getStructureHierarchyByAssignee
  activeIssueKeys, \* keys of the issues the JQL search returned
  structElements,      \* hierarchy.structElements of one structure
  hierarchyAnswer, \* "ok" | "error": outcome of getStructureHierarchy
  shown,         \* lines of the answer for the structure
  assigneePc,    \* position of getStructureHierarchyByAssignee
  \* start-up: validateEnvironment, then new JiraApiClient()
  env,           \* process.env
  validation,    \* outcome of validateEnvironment
  construction,  \* outcome of the JiraApiClient constructor
  \* JiraApiClient session
  manualCookies, \* process.env.JIRA_SESSION_COOKIES
  sessionInitialized,
  sessionCookies,
  exchanges,     \* history: session initializations that went to the server
  reqs,          \* position of each concurrent makeRequest call
  \* JiraApiClient.getStructureHierarchy
  endpointIdx,   \* index of the endpoint of the running loop iteration
  lastError,     \* the local lastError
  tried,         \* history: indices of the endpoints fetched, in order
  answer,        \* history: what the last fetch (or ensureSession) answered
  hierarchyResult \* what getStructureHierarchy returned or threw

completeVars == <<params, lastIssue, completePc, trackerStatus, workflow,
                  canceledCategory, currentStatus, requests, chosen, completeResult>>
assigneeVars == <<activeIssueKeys, structElements, hierarchyAnswer, shown, assigneePc>>
startupVars == <<env, validation, construction>>
sessionVars == <<manualCookies, sessionInitialized, sessionCookies, exchanges, reqs>>
endpointVars == <<endpointIdx, lastError, tried, answer, hierarchyResult>>

\* everything outside a hierarchy build
sideVars == <<completeVars, assigneeVars, startupVars, sessionVars, endpointVars>>

vars == <<hierVars, sideVars>>

\* no completeIssue call is running
CompleteIdle ==
  /\ params = [issueKey |-> "none", confirm |-> FALSE]
  /\ lastIssue = "none"
  /\ completePc = "idle"
  /\ trackerStatus = "none"
  /\ workflow = <<>>
  /\ canceledCategory = "none"
  /\ currentStatus = "none"
  /\ requests = <<>>
  /\ chosen = "none"
  /\ completeResult = [kind |-> "none", key |-> "none"]

\* no getStructureHierarchyByAssignee call is running
AssigneeIdle ==
  /\ activeIssueKeys = {}
  /\ structElements = <<>>
  /\ hierarchyAnswer = "none"
  /\ shown = <<>>
  /\ assigneePc = "idle"

\* the process is not starting
StartupIdle ==
  /\ env = <<>>
  /\ validation = "none"
  /\ construction = "none"

\* no Structure API request is running
SessionIdle ==
  /\ manualCookies = "none"
  /\ sessionInitialized = FALSE
  /\ sessionCookies = ""
  /\ exchanges = 0
  /\ reqs = <<>>

\* no getStructureHierarchy call is running
EndpointIdle ==
  /\ endpointIdx = 0
  /\ lastError = "none"
  /\ tried = <<>>
  /\ answer = "none"
  /\ hierarchyResult = "none"

forestVars == <<response, pos, epicKeysToFetch, epicsFetched, structure, foldersCount>>
rootedVars == <<rootKey, maxDepth, includeEpic, visited, stack>>

(***************************************************************************)
(* Helpers                                                                 *)
(***************************************************************************)
Range(s) == {s[i] : i \in 1..Len(s)}

Includes(s, x) == x \in Range(s)

\* variant of PushUnique: push without the includes test
PushUnique_NoTest(m, k, x) == [m EXCEPT ![k] = Append(@, x)]

\* if (!map[k].includes(x)) map[k].push(x)
PushUnique(m, k, x) == IF Includes(m[k], x) THEN m ELSE [m EXCEPT ![k] = Append(@, x)]

\* Array.from(new Set(s)): first occurrences, in order
RECURSIVE Dedup(_)
Dedup(s) ==
  IF s = <<>> THEN <<>>
  ELSE LET r == Dedup(SubSeq(s, 1, Len(s) - 1))
       IN IF Includes(r, s[Len(s)]) THEN r ELSE Append(r, s[Len(s)])

\* the elements of s that belong to S, in the order of s
Restrict(s, S) == LET In(x) == x \in S IN SelectSeq(s, In)

EmptyMap == [k \in Keys |-> <<>>]

\* const maxDepth = params.maxDepth || 10   (0 stands for "not supplied")
EffectiveMaxDepth(d) == IF d = 0 THEN DefaultMaxDepth ELSE d

\* no second call is running
NoCall == <<>>

\* an entry of issueMap; src tells how it was registered
Absent == [src |-> "absent", epik |-> FALSE, epicLink |-> None]
Has(k) == issueMap[k].src # "absent"

Top == stack[Len(stack)]
Pop == SubSeq(stack, 1, Len(stack) - 1)
ReplaceTop(f) == [stack EXCEPT ![Len(stack)] = f]
Frame(k, d, st) == [key |-> k, depth |-> d, stage |-> st]

(***************************************************************************)
(* Tree renderer: buildTreeLines                                           *)
(***************************************************************************)
\* variant of AllChildren: the two lists spread in the other order
AllChildren_ParentFirst(issueKey) == Dedup(parentMap[issueKey] \o coversMap[issueKey])

\* const allChildren = Array.from(new Set([...coveredIssues, ...childIssues]))
AllChildren(issueKey) == Dedup(coversMap[issueKey] \o parentMap[issueKey])

\* one printed item: an issue node, a header or a "... and N more" line
Item(kind, k, l, n) == [kind |-> kind, key |-> k, level |-> l, n |-> n]
Entry(k, l) == Item("issue", k, l, 0)

\* answer of apiClient.getStructureHierarchy: status "ok" with elements, or a throw
StructureAnswer(status, elements) == [status |-> status, elements |-> elements]
NoStructure == StructureAnswer("none", <<>>)

RECURSIVE BuildTreeLines(_, _, _), BuildChildren(_, _, _, _)
\* returns the lines of the subtree and the visited set after the walk
BuildTreeLines(issueKey, level, vis) ==
  IF issueKey \in vis THEN [lines |-> <<>>, vis |-> vis]
  ELSE LET vis1 == vis \cup {issueKey}
       IN IF ~Has(issueKey) THEN [lines |-> <<>>, vis |-> vis1]
          ELSE BuildChildren(AllChildren(issueKey), 1, level + 1,
                             [lines |-> <<Entry(issueKey, level)>>, vis |-> vis1])

BuildChildren(children, i, level, acc) ==
  IF i > Len(children) THEN acc
  ELSE LET r == BuildTreeLines(children[i], level, acc.vis)
       IN BuildChildren(children, i + 1, level,
                        [lines |-> acc.lines \o r.lines, vis |-> r.vis])

(***************************************************************************)
(* Rooted mode: getIssueHierarchyFromRoot                                  *)
(***************************************************************************)
RealIssue == [src |-> "fetched", epik |-> FALSE, epicLink |-> None]

\* the issues the tracker holds around a root: the three tasks around T1, and
\* the three tasks with their epic around T2
Tracker(root) == IF root = "T1" THEN TaskKeys ELSE TaskKeys \cup {"E1"}
\* the keys a rooted build can meet
RootedKeys == Tracker(rootKey)

\* args.maxDepth as executeTool hands it over: absent (0), within the schema
\* limits, or a number outside them
RequestedDepths == (0..MaxD) \cup {MinDepthLimit - 2, MaxDepthLimit + 1}

InitRooted ==
  /\ mode = "rooted"
  /\ phase = "fetch"
  /\ rootKey = "T1"
  /\ maxDepth \in {EffectiveMaxDepth(d) : d \in RequestedDepths}
  /\ includeEpic \in BOOLEAN
  /\ issueMap = [k \in Keys |-> Absent]
  /\ issueOrder = <<>>
  /\ epicMap = EmptyMap
  /\ epicOrder = <<>>
  /\ coversMap = EmptyMap
  /\ parentMap = EmptyMap
  /\ visited = {}
  /\ stack = <<Frame("T1", 0, "call")>>
  /\ response = <<>>
  /\ pos = 0
  /\ epicKeysToFetch = <<>>
  /\ epicsFetched = {}
  /\ structure = NoStructure
  /\ foldersCount = 0
  /\ linksRead = 0
  /\ lookups = [k \in Keys |-> 0]
  /\ failed = {}
  /\ output = <<>>
  /\ result = "none"
  /\ otherCall = NoCall
  /\ CompleteIdle /\ AssigneeIdle /\ StartupIdle /\ SessionIdle /\ EndpointIdle

\* if (depth > maxDepth || visited.has(key)) return;
FetchGuard(key, depth) == depth > maxDepth \/ key \in visited

\* if (!visited.has(k)) await fetchIssueHierarchy(k, depth + 1)
Recurse(f, k) ==
  IF k \in visited THEN ReplaceTop(f)
  ELSE Append(ReplaceTop(f), Frame(k, f.depth + 1, "call"))

FetchSkip ==
  /\ mode = "rooted" /\ phase = "fetch" /\ stack # <<>>
  /\ Top.stage = "call"
  /\ FetchGuard(Top.key, Top.depth)
  /\ stack' = Pop
  /\ UNCHANGED <<sideVars, otherCall, forestVars, mode, phase, rootKey, maxDepth, includeEpic, issueMap, issueOrder,
                 epicMap, epicOrder, coversMap, parentMap, visited, linksRead,
                 lookups, failed, output, result>>

\* variant of FetchOk: visited.add(key) is missing
FetchOk_NoMark ==
  /\ mode = "rooted" /\ phase = "fetch" /\ stack # <<>>
  /\ Top.stage = "call"
  /\ ~FetchGuard(Top.key, Top.depth)
  /\ lookups' = [lookups EXCEPT ![Top.key] = @ + 1]
  /\ issueMap' = [issueMap EXCEPT ![Top.key] = RealIssue]
  /\ stack' = ReplaceTop([Top EXCEPT !.stage = "epic"])
  /\ UNCHANGED <<sideVars, otherCall, forestVars, mode, phase, rootKey, maxDepth, includeEpic, issueOrder, epicMap,
                 epicOrder, coversMap, parentMap, visited, linksRead, failed, output, result>>

\* getIssue resolves: issueMap[key] = issue
FetchOk ==
  /\ mode = "rooted" /\ phase = "fetch" /\ stack # <<>>
  /\ Top.stage = "call"
  /\ ~FetchGuard(Top.key, Top.depth)
  /\ visited' = visited \cup {Top.key}
  /\ lookups' = [lookups EXCEPT ![Top.key] = @ + 1]
  /\ issueMap' = [issueMap EXCEPT ![Top.key] = RealIssue]
  /\ stack' = ReplaceTop([Top EXCEPT !.stage = "epic"])
  /\ UNCHANGED <<sideVars, otherCall, forestVars, mode, phase, rootKey, maxDepth, includeEpic, issueOrder, epicMap,
                 epicOrder, coversMap, parentMap, linksRead, failed, output, result>>

\* variant of FetchFail: the catch registers an empty record for the key
FetchFail_Placeholder ==
  /\ mode = "rooted" /\ phase = "fetch" /\ stack # <<>>
  /\ Top.stage = "call"
  /\ ~FetchGuard(Top.key, Top.depth)
  /\ visited' = visited \cup {Top.key}
  /\ lookups' = [lookups EXCEPT ![Top.key] = @ + 1]
  /\ failed' = failed \cup {Top.key}
  /\ issueMap' = [issueMap EXCEPT ![Top.key] = RealIssue]
  /\ stack' = Pop
  /\ UNCHANGED <<sideVars, otherCall, forestVars, mode, phase, rootKey, maxDepth, includeEpic, issueOrder,
                 epicMap, epicOrder, coversMap, parentMap, linksRead, output, result>>

\* getIssue throws: caught and logged, nothing is registered
FetchFail ==
  /\ mode = "rooted" /\ phase = "fetch" /\ stack # <<>>
  /\ Top.stage = "call"
  /\ ~FetchGuard(Top.key, Top.depth)
  /\ visited' = visited \cup {Top.key}
  /\ lookups' = [lookups EXCEPT ![Top.key] = @ + 1]
  /\ failed' = failed \cup {Top.key}
  /\ stack' = Pop
  /\ UNCHANGED <<sideVars, otherCall, forestVars, mode, phase, rootKey, maxDepth, includeEpic, issueMap, issueOrder,
                 epicMap, epicOrder, coversMap, parentMap, linksRead, output, result>>

\* variant of ProcessEpicLink: the epic is fetched whatever params.includeEpic says
ProcessEpicLink_Always ==
  /\ mode = "rooted" /\ phase = "fetch" /\ stack # <<>>
  /\ Top.stage = "epic"
  /\ \E epicKey \in (RootedKeys \ {Top.key}) \cup {None} :
       LET f == [Top EXCEPT !.stage = "links"] IN
       IF epicKey = None
       THEN /\ stack' = ReplaceTop(f)
            /\ UNCHANGED epicMap
       ELSE /\ epicMap' = PushUnique(epicMap, epicKey, Top.key)
            /\ stack' = Recurse(f, epicKey)
  /\ UNCHANGED <<sideVars, otherCall, forestVars, mode, phase, rootKey, maxDepth, includeEpic, issueMap, issueOrder,
                 epicOrder, coversMap, parentMap, visited, linksRead, lookups,
                 failed, output, result>>

\* the epic link of the fetched record
ProcessEpicLink ==
  /\ mode = "rooted" /\ phase = "fetch" /\ stack # <<>>
  /\ Top.stage = "epic"
  /\ \E epicKey \in (RootedKeys \ {Top.key}) \cup {None} :
       LET f == [Top EXCEPT !.stage = "links"] IN
       IF epicKey = None
       THEN /\ stack' = ReplaceTop(f)
            /\ UNCHANGED epicMap
       ELSE /\ epicMap' = PushUnique(epicMap, epicKey, Top.key)
            /\ stack' = IF includeEpic THEN Recurse(f, epicKey) ELSE ReplaceTop(f)
  /\ UNCHANGED <<sideVars, otherCall, forestVars, mode, phase, rootKey, maxDepth, includeEpic, issueMap, issueOrder,
                 epicOrder, coversMap, parentMap, visited, linksRead, lookups,
                 failed, output, result>>

\* one iteration of `for (const link of issue.fields.issuelinks)`
ProcessLink ==
  /\ mode = "rooted" /\ phase = "fetch" /\ stack # <<>>
  /\ Top.stage = "links"
  /\ linksRead < MaxLinks
  /\ linksRead' = linksRead + 1
  /\ \E link \in Links(Top.key, RootedKeys) :
       LET key == Top.key
           kind == link.kind
           other == link.key
           f == Top
       IN
       /\ coversMap' = CASE kind = "covers" -> PushUnique(coversMap, key, other)
                         [] kind = "coveredBy" -> PushUnique(coversMap, other, key)
                         [] OTHER -> coversMap
       /\ parentMap' = CASE kind = "parentOf" -> PushUnique(parentMap, key, other)
                         [] kind = "childOf" -> PushUnique(parentMap, other, key)
                         [] OTHER -> parentMap
       /\ stack' = IF kind = "other" THEN ReplaceTop(f) ELSE Recurse(f, other)
  /\ UNCHANGED <<sideVars, otherCall, forestVars, mode, phase, rootKey, maxDepth, includeEpic, issueMap, issueOrder,
                 epicMap, epicOrder, visited, lookups, failed, output, result>>

\* the link loop ends, fetchIssueHierarchy returns
FetchReturn ==
  /\ mode = "rooted" /\ phase = "fetch" /\ stack # <<>>
  /\ Top.stage = "links"
  /\ stack' = Pop
  /\ UNCHANGED <<sideVars, otherCall, forestVars, mode, phase, rootKey, maxDepth, includeEpic, issueMap, issueOrder,
                 epicMap, epicOrder, coversMap, parentMap, visited, linksRead,
                 lookups, failed, output, result>>

\* if (!rootIssue) return "Issue Not Found"
ReturnNotFound ==
  /\ mode = "rooted" /\ phase = "fetch" /\ stack = <<>>
  /\ ~Has(rootKey)
  /\ result' = "notfound"
  /\ phase' = "done"
  /\ UNCHANGED <<sideVars, otherCall, forestVars, mode, rootKey, maxDepth, includeEpic, issueMap, issueOrder,
                 epicMap, epicOrder, coversMap, parentMap, visited, stack, linksRead,
                 lookups, failed, output>>

\* variant of RenderRooted: the text is built without awaiting the recursive fetch
RenderRooted_Early ==
  /\ mode = "rooted" /\ phase = "fetch"
  /\ Has(rootKey)
  /\ output' = BuildTreeLines(rootKey, 0, {}).lines
  /\ result' = "ok"
  /\ phase' = "done"
  /\ UNCHANGED <<sideVars, otherCall, forestVars, mode, rootKey, maxDepth, includeEpic, issueMap,
                 issueOrder, epicMap, epicOrder, coversMap, parentMap, visited, stack,
                 linksRead, lookups, failed>>

\* const treeLines = buildTreeLines(params.issueKey, 0, '', true, visitedTree)
RenderRooted ==
  /\ mode = "rooted" /\ phase = "fetch" /\ stack = <<>>
  /\ Has(rootKey)
  /\ output' = BuildTreeLines(rootKey, 0, {}).lines
  /\ result' = "ok"
  /\ phase' = "done"
  /\ UNCHANGED <<sideVars, otherCall, forestVars, mode, rootKey, maxDepth, includeEpic, issueMap, issueOrder,
                 epicMap, epicOrder, coversMap, parentMap, visited, stack, linksRead,
                 lookups, failed>>

\* a rooted build from T2, whose tracker holds four issues that list two
\* links in total, with a depth bound the caller supplied
InitDeep ==
  /\ mode = "rooted"
  /\ phase = "fetch"
  /\ rootKey = "T2"
  /\ maxDepth \in {EffectiveMaxDepth(d) : d \in 1..MaxD}
  /\ includeEpic \in BOOLEAN
  /\ issueMap = [k \in Keys |-> Absent]
  /\ issueOrder = <<>>
  /\ epicMap = EmptyMap
  /\ epicOrder = <<>>
  /\ coversMap = EmptyMap
  /\ parentMap = EmptyMap
  /\ visited = {}
  /\ stack = <<Frame("T2", 0, "call")>>
  /\ response = <<>>
  /\ pos = 0
  /\ epicKeysToFetch = <<>>
  /\ epicsFetched = {}
  /\ structure = NoStructure
  /\ foldersCount = 0
  /\ linksRead = MaxLinks - 2
  /\ lookups = [k \in Keys |-> 0]
  /\ failed = {}
  /\ output = <<>>
  /\ result = "none"
  /\ otherCall = NoCall
  /\ CompleteIdle /\ AssigneeIdle /\ StartupIdle /\ SessionIdle /\ EndpointIdle

NextRooted ==
  \/ FetchSkip
  \/ FetchOk
  \/ FetchFail
  \/ ProcessEpicLink
  \/ ProcessLink
  \/ FetchReturn
  \/ ReturnNotFound
  \/ RenderRooted

SpecRooted == InitRooted /\ [][NextRooted]_vars

SpecDeep == InitDeep /\ [][NextRooted]_vars


(***************************************************************************)
(* Forest mode: getIssueHierarchy                                          *)
(***************************************************************************)
EpicCanon == <<"E1", "E2">>
FKeys(S) == S \cap ForestKeys

IssueRecord(src, key, epicLink) == [src |-> src, epik |-> key \in EpicKeys, epicLink |-> epicLink]

\* issueMap[k] = rec, keeping the position of an existing key
SetIssue(m, k, rec) == [m EXCEPT ![k] = rec]
\* variant of RegisterIfAbsent: the record is stored without the test
RegisterIfAbsent_Always(m, k, rec) == [m EXCEPT ![k] = rec]

\* if (!issueMap[k]) issueMap[k] = rec
RegisterIfAbsent(m, k, rec) == IF m[k].src # "absent" THEN m ELSE [m EXCEPT ![k] = rec]
OrderAfter(order, m, k) == IF m[k].src # "absent" THEN order ELSE Append(order, k)

\* Set.add on an insertion-ordered Set
SetAdd(s, x) == IF Includes(s, x) THEN s ELSE Append(s, x)

InitForest ==
  /\ mode = "forest"
  /\ phase = "query"
  /\ rootKey = None
  /\ maxDepth = 0
  /\ includeEpic = FALSE
  /\ issueMap = [k \in Keys |-> Absent]
  /\ issueOrder = <<>>
  /\ epicMap = EmptyMap
  /\ epicOrder = <<>>
  /\ coversMap = EmptyMap
  /\ parentMap = EmptyMap
  /\ visited = {}
  /\ stack = <<>>
  /\ response = <<>>
  /\ pos = 0
  /\ epicKeysToFetch = <<>>
  /\ epicsFetched = {}
  /\ structure = NoStructure
  /\ foldersCount = 0
  /\ linksRead = 0
  /\ lookups = [k \in Keys |-> 0]
  /\ failed = {}
  /\ output = <<>>
  /\ result = "none"
  /\ otherCall = NoCall
  /\ CompleteIdle /\ AssigneeIdle /\ StartupIdle /\ SessionIdle /\ EndpointIdle

\* apiClient.searchIssues(jql) or the epic query throws: the call rethrows
SearchFail ==
  /\ mode = "forest" /\ phase = "query"
  /\ result' = "error"
  /\ phase' = "done"
  /\ UNCHANGED <<sideVars, otherCall, rootedVars, mode, issueMap, issueOrder, epicMap, epicOrder, coversMap,
                 parentMap, response, pos, epicKeysToFetch, epicsFetched, structure,
                 foldersCount, linksRead, lookups, failed, output>>

\* one record of response.issues, read by the "Fill issue_map" loop
QueryIssue ==
  /\ mode = "forest" /\ phase = "query"
  /\ \E key \in ForestKeys \ Range(response) :
     \E epicLink \in (IF key \in TaskKeys THEN FKeys(EpicKeys) ELSE {}) \cup {None} :
       /\ response' = Append(response, key)
       /\ issueMap' = SetIssue(issueMap, key, IssueRecord("query", key, epicLink))
       /\ issueOrder' = OrderAfter(issueOrder, issueMap, key)
       /\ epicKeysToFetch' = IF epicLink = None THEN epicKeysToFetch
                             ELSE SetAdd(epicKeysToFetch, epicLink)
  /\ UNCHANGED <<sideVars, otherCall, rootedVars, mode, phase, epicMap, epicOrder, coversMap, parentMap, pos,
                 epicsFetched, structure, foldersCount, linksRead, lookups, failed,
                 output, result>>

RECURSIVE AddEpics(_, _, _)
\* for (const epic of epicsResponse.issues): register if absent, epicKeysToFetch.add
AddEpics(epics, i, acc) ==
  IF i > Len(epics) THEN acc
  ELSE AddEpics(epics, i + 1,
         [m |-> RegisterIfAbsent(acc.m, epics[i], IssueRecord("epicq", epics[i], None)),
          order |-> OrderAfter(acc.order, acc.m, epics[i]),
          toFetch |-> SetAdd(acc.toFetch, epics[i])])

\* the response list ends; the epic query answers
EpicQuery ==
  /\ mode = "forest" /\ phase = "query"
  /\ \E S \in SUBSET FKeys(EpicKeys) :
       LET r == AddEpics(Restrict(EpicCanon, S), 1,
                         [m |-> issueMap, order |-> issueOrder, toFetch |-> epicKeysToFetch])
       IN /\ issueMap' = r.m
          /\ issueOrder' = r.order
          /\ epicKeysToFetch' = r.toFetch
          /\ epicsFetched' = S
  /\ phase' = "epicFetch"
  /\ pos' = 1
  /\ UNCHANGED <<sideVars, otherCall, rootedVars, mode, epicMap, epicOrder, coversMap, parentMap, response,
                 structure, foldersCount, linksRead, lookups, failed, output, result>>

\* epicKeysArray.filter(key => !fetchedEpicKeys.has(key))
EpicsToFetch == LET Missing(k) == k \notin epicsFetched IN SelectSeq(epicKeysToFetch, Missing)

EpicFetchOk ==
  /\ mode = "forest" /\ phase = "epicFetch"
  /\ pos <= Len(EpicsToFetch)
  /\ LET epicKey == EpicsToFetch[pos] IN
       /\ lookups' = [lookups EXCEPT ![epicKey] = @ + 1]
       /\ issueMap' = RegisterIfAbsent(issueMap, epicKey, IssueRecord("fetched", epicKey, None))
       /\ issueOrder' = OrderAfter(issueOrder, issueMap, epicKey)
  /\ pos' = pos + 1
  /\ UNCHANGED <<sideVars, otherCall, rootedVars, mode, phase, epicMap, epicOrder, coversMap, parentMap,
                 response, epicKeysToFetch, epicsFetched, structure, foldersCount,
                 linksRead, failed, output, result>>

EpicFetchFail ==
  /\ mode = "forest" /\ phase = "epicFetch"
  /\ pos <= Len(EpicsToFetch)
  /\ LET epicKey == EpicsToFetch[pos] IN
       /\ lookups' = [lookups EXCEPT ![epicKey] = @ + 1]
       /\ failed' = failed \cup {epicKey}
  /\ pos' = pos + 1
  /\ UNCHANGED <<sideVars, otherCall, rootedVars, mode, phase, issueMap, issueOrder, epicMap, epicOrder,
                 coversMap, parentMap, response, epicKeysToFetch, epicsFetched,
                 structure, foldersCount, linksRead, output, result>>

EpicFetchEnd ==
  /\ mode = "forest" /\ phase = "epicFetch"
  /\ pos > Len(EpicsToFetch)
  /\ phase' = "relEpic"
  /\ pos' = 1
  /\ UNCHANGED <<sideVars, otherCall, rootedVars, mode, issueMap, issueOrder, epicMap, epicOrder, coversMap,
                 parentMap, response, epicKeysToFetch, epicsFetched, structure,
                 foldersCount, linksRead, lookups, failed, output, result>>

\* "Process hierarchical relationships": the Epic Link of response.issues[pos]
RelEpicLink ==
  /\ mode = "forest" /\ phase = "relEpic"
  /\ pos <= Len(response)
  /\ LET key == response[pos]
         epicKey == issueMap[key].epicLink
     IN IF epicKey = None THEN UNCHANGED <<epicMap, epicOrder>>
        ELSE /\ epicMap' = [epicMap EXCEPT ![epicKey] = Append(@, key)]
             /\ epicOrder' = IF epicMap[epicKey] = <<>> THEN Append(epicOrder, epicKey)
                             ELSE epicOrder
  /\ phase' = "relLinks"
  /\ UNCHANGED <<sideVars, otherCall, rootedVars, mode, issueMap, issueOrder, coversMap, parentMap, response,
                 pos, epicKeysToFetch, epicsFetched, structure, foldersCount, linksRead,
                 lookups, failed, output, result>>

\* one iteration of `for (const link of issuelinks)` of response.issues[pos]
RelLink ==
  /\ mode = "forest" /\ phase = "relLinks"
  /\ linksRead < MaxForestLinks
  /\ linksRead' = linksRead + 1
  /\ \E link \in Links(response[pos], ForestKeys) :
       LET key == response[pos]
           kind == link.kind
           other == link.key
       IN
       /\ coversMap' = CASE kind = "covers" -> PushUnique(coversMap, key, other)
                         [] kind = "coveredBy" -> PushUnique(coversMap, other, key)
                         [] OTHER -> coversMap
       /\ parentMap' = CASE kind = "parentOf" -> PushUnique(parentMap, key, other)
                         [] kind = "childOf" -> PushUnique(parentMap, other, key)
                         [] OTHER -> parentMap
       /\ IF kind = "other" THEN UNCHANGED <<issueMap, issueOrder>>
          ELSE /\ issueMap' = RegisterIfAbsent(issueMap, other, IssueRecord("stub", other, None))
               /\ issueOrder' = OrderAfter(issueOrder, issueMap, other)
  /\ UNCHANGED <<sideVars, otherCall, rootedVars, mode, phase, epicMap, epicOrder, response, pos,
                 epicKeysToFetch, epicsFetched, structure, foldersCount, lookups,
                 failed, output, result>>

RelNext ==
  /\ mode = "forest" /\ phase = "relLinks"
  /\ pos' = pos + 1
  /\ phase' = "relEpic"
  /\ UNCHANGED <<sideVars, otherCall, rootedVars, mode, issueMap, issueOrder, epicMap, epicOrder, coversMap,
                 parentMap, response, epicKeysToFetch, epicsFetched, structure,
                 foldersCount, linksRead, lookups, failed, output, result>>

(***************************************************************************)
(* Forest mode: folder overlay (Structure 138) and output                  *)
(***************************************************************************)
FolderCap == 20     \* members printed per epic under a folder, and roots printed
EpicCap == 30       \* members printed per epic outside folders

FolderNamesSorted == <<"F1", "F2", "F3">>
FolderName(id) == CASE id = "f1" -> "F1" [] id = "f2" -> "F2" [] OTHER -> "F3"

Element(id, parentId, issueKey, folder) ==
  [id |-> id, parentId |-> parentId, issueKey |-> issueKey, folder |-> folder]

\* const isFolder = !element.issueKey && (element.type === 'folder' || ...)
IsFolder(e) == e.issueKey = None /\ e.folder

RECURSIVE GetFolderPath(_, _)
\* names of the folders from the top folder down to elementId
GetFolderPath(elements, elementId) ==
  LET idx == {i \in 1..Len(elements) : elements[i].id = elementId} IN
  IF idx = {} THEN <<>>
  ELSE LET e == elements[CHOOSE i \in idx : \A j \in idx : i <= j] IN
       IF ~IsFolder(e) THEN <<>>
       ELSE IF e.parentId # None
            THEN GetFolderPath(elements, e.parentId) \o <<FolderName(e.id)>>
            ELSE <<FolderName(e.id)>>

RECURSIVE MapFolders(_, _, _)
\* "Map issues and epics to their folder paths": issueToFolderMap and the
\* keys of folderMap
MapFolders(elements, i, acc) ==
  IF i > Len(elements) THEN acc
  ELSE LET e == elements[i]
           path == GetFolderPath(elements, e.parentId)
           ours == e.issueKey # None /\ (Has(e.issueKey) \/ Includes(epicOrder, e.issueKey))
       IN IF ours /\ e.parentId # None /\ path # <<>>
          THEN MapFolders(elements, i + 1,
                 [paths |-> [acc.paths EXCEPT ![e.issueKey] = SetAdd(@, path)],
                  names |-> acc.names \cup {path[Len(path)]}])
          ELSE MapFolders(elements, i + 1, acc)

IssueToFolderMap(st) ==
  IF st.status = "ok" /\ Len(st.elements) > 0
  THEN MapFolders(st.elements, 1, [paths |-> [k \in DOMAIN issueMap |-> <<>>], names |-> {}])
  ELSE [paths |-> [k \in DOMAIN issueMap |-> <<>>], names |-> {}]

\* folderPath.split(' -> ')[0] of every path of the key
TopFolders(paths, k) == [i \in 1..Len(paths[k]) |-> paths[k][i][1]]

RECURSIVE MemberFolders(_, _, _)
MemberFolders(paths, issues, i) ==
  IF i > Len(issues) THEN <<>>
  ELSE TopFolders(paths, issues[i]) \o MemberFolders(paths, issues, i + 1)

\* variant of EpicFolders: only the folders of the members are collected
EpicFolders_MembersOnly(paths, epicKey) ==
  Dedup(MemberFolders(paths, epicMap[epicKey], 1))

\* the Set epicFolders of one epic, in insertion order
EpicFolders(paths, epicKey) ==
  Dedup(TopFolders(paths, epicKey) \o MemberFolders(paths, epicMap[epicKey], 1))

RECURSIVE GroupEpics(_, _, _)
\* folderToEpicsMap and epicsWithoutFolders
GroupEpics(paths, i, acc) ==
  IF i > Len(epicOrder) THEN acc
  ELSE LET epicKey == epicOrder[i]
           fs == EpicFolders(paths, epicKey)
       IN IF fs # <<>>
          THEN GroupEpics(paths, i + 1,
                 [inFolder |-> [f \in Range(FolderNamesSorted) |->
                                  IF Includes(fs, f) THEN SetAdd(acc.inFolder[f], epicKey)
                                  ELSE acc.inFolder[f]],
                  without |-> acc.without])
          ELSE GroupEpics(paths, i + 1,
                 [inFolder |-> acc.inFolder, without |-> Append(acc.without, epicKey)])

Grouping(paths) ==
  GroupEpics(paths, 1, [inFolder |-> [f \in Range(FolderNamesSorted) |-> <<>>], without |-> <<>>])

Min(a, b) == IF a < b THEN a ELSE b

RECURSIVE RenderList_FreshVisited(_, _, _, _, _)
\* variant of RenderList: a new visited set for every listed key
RenderList_FreshVisited(keys, i, limit, level, acc) ==
  IF i > limit THEN acc
  ELSE IF ~Has(keys[i]) THEN RenderList_FreshVisited(keys, i + 1, limit, level, acc)
       ELSE LET r == BuildTreeLines(keys[i], level, {})
            IN RenderList_FreshVisited(keys, i + 1, limit, level,
                                       [lines |-> acc.lines \o r.lines, vis |-> r.vis])

RECURSIVE RenderList(_, _, _, _, _)
\* for (i = 0; i < Math.min(keys.length, cap); i++) buildTreeLines(keys[i], level, ..., visited)
RenderList(keys, i, limit, level, acc) ==
  IF i > limit THEN acc
  ELSE IF ~Has(keys[i]) THEN RenderList(keys, i + 1, limit, level, acc)
       ELSE LET r == BuildTreeLines(keys[i], level, acc.vis)
            IN RenderList(keys, i + 1, limit, level,
                          [lines |-> acc.lines \o r.lines, vis |-> r.vis])

\* variant of RenderCapped: the line "... и еще N задач" is not printed
RenderCapped_NoRemainder(keys, cap, level) ==
  RenderList(keys, 1, Min(Len(keys), cap), level, [lines |-> <<>>, vis |-> {}]).lines

\* the trees of a list with one fresh visited set, then "... и еще N задач"
RenderCapped(keys, cap, level) ==
  RenderList(keys, 1, Min(Len(keys), cap), level, [lines |-> <<>>, vis |-> {}]).lines
  \o (IF Len(keys) > cap THEN <<Item("more", None, level, Len(keys) - cap)>> ELSE <<>>)

\* one epic under a folder: a missing epic prints its header and `continue`s
EpicInFolder(epicKey) ==
  IF ~Has(epicKey) THEN <<Item("epicMissing", epicKey, 1, Len(epicMap[epicKey]))>>
  ELSE <<Item("epic", epicKey, 1, Len(epicMap[epicKey]))>>
       \o RenderCapped(epicMap[epicKey], FolderCap, 2)

\* one epic of epicsWithoutFolders
EpicWithoutFolder(epicKey) ==
  <<Item(IF Has(epicKey) THEN "epic" ELSE "epicMissing", epicKey, 0, Len(epicMap[epicKey]))>>
  \o RenderCapped(epicMap[epicKey], EpicCap, 1)

RECURSIVE EpicSections(_, _, _)
EpicSections(epics, i, inFolder) ==
  IF i > Len(epics) THEN <<>>
  ELSE (IF inFolder THEN EpicInFolder(epics[i]) ELSE EpicWithoutFolder(epics[i]))
       \o EpicSections(epics, i + 1, inFolder)

RECURSIVE FolderSections(_, _, _)
\* for (const folderName of Object.keys(folderToEpicsMap).sort())
FolderSections(names, i, inFolder) ==
  IF i > Len(names) THEN <<>>
  ELSE <<Item("folder", names[i], 0, Len(inFolder[names[i]]))>>
       \o EpicSections(inFolder[names[i]], 1, TRUE)
       \o FolderSections(names, i + 1, inFolder)

\* variant of TasksWithoutEpic: only the keys of the query result are candidates
TasksWithoutEpic_QueryOnly ==
  LET Free(k) == /\ ~Includes(epicOrder, k)
                 /\ ~issueMap[k].epik
                 /\ issueMap[k].epicLink = None
  IN SelectSeq(response, Free)

\* "Tasks without epics": the keys of issueMap that are no epic of epicMap, are
\* not of type 'Эпик' and carry no Epic Link field
TasksWithoutEpic ==
  LET Free(k) == /\ ~Includes(epicOrder, k)
                 /\ ~issueMap[k].epik
                 /\ issueMap[k].epicLink = None
  IN SelectSeq(issueOrder, Free)

AllCovered == UNION {Range(coversMap[k]) : k \in DOMAIN coversMap}
AllChildKeys == UNION {Range(parentMap[k]) : k \in DOMAIN parentMap}

KeyCanon == <<"E1", "E2", "T1", "T2", "T3">>
\* variant of RootTasks: the roots are sorted by key
RootTasks_Sorted ==
  LET IsRoot(k) == k \notin AllCovered /\ k \notin AllChildKeys
  IN Restrict(KeyCanon, Range(SelectSeq(TasksWithoutEpic, IsRoot)))

RootTasks ==
  LET IsRoot(k) == k \notin AllCovered /\ k \notin AllChildKeys
  IN SelectSeq(TasksWithoutEpic, IsRoot)

RootSection ==
  IF RootTasks = <<>> THEN <<>>
  ELSE <<Item("roots", None, -1, Len(RootTasks))>> \o RenderCapped(RootTasks, FolderCap, 0)

\* the text of getIssueHierarchy for one answer of the structure lookup
ForestOutput(st) ==
  LET maps == IssueToFolderMap(st)
      g == Grouping(maps.paths)
      used == {f \in Range(FolderNamesSorted) : g.inFolder[f] # <<>>}
  IN [lines |-> FolderSections(Restrict(FolderNamesSorted, used), 1, g.inFolder)
                \o EpicSections(g.without, 1, FALSE)
                \o RootSection,
      folders |-> Cardinality(maps.names)]

FolderElements ==
  <<Element("f1", None, None, TRUE), Element("f2", None, None, TRUE),
    Element("f3", "f1", None, TRUE)>>

\* the issue elements a structure can list below its folders
Placements == [issueKey : ForestKeys, parentId : {"f1", "f2", "f3"}]
PlacedElement(p) == Element(p.issueKey, p.parentId, p.issueKey, FALSE)

StructureAnswers ==
  {StructureAnswer("404", <<>>), StructureAnswer("error", <<>>), StructureAnswer("ok", <<>>)}
  \cup {StructureAnswer("ok", FolderElements \o <<PlacedElement(p)>>) : p \in Placements}
  \cup {StructureAnswer("ok", FolderElements \o <<PlacedElement(p), PlacedElement(q)>>) :
          p \in {x \in Placements : x.parentId # "f2"},
          q \in {x \in Placements : x.parentId = "f2"}}

\* variant of RenderForest: a throw of the structure lookup is not caught
RenderForest_Rethrow ==
  /\ mode = "forest" /\ phase = "relEpic"
  /\ pos > Len(response)
  /\ \E st \in StructureAnswers :
       LET out == ForestOutput(st) IN
       /\ structure' = st
       /\ output' = IF st.status = "ok" THEN out.lines ELSE <<>>
       /\ foldersCount' = out.folders
       /\ result' = IF st.status = "ok" THEN "ok" ELSE "error"
  /\ phase' = "done"
  /\ UNCHANGED <<sideVars, otherCall, rootedVars, mode, issueMap, issueOrder, epicMap, epicOrder, coversMap,
                 parentMap, response, pos, epicKeysToFetch, epicsFetched, linksRead,
                 lookups, failed>>

\* the relationship loop ends; the structure lookup settles; the text is built
RenderForest ==
  /\ mode = "forest" /\ phase = "relEpic"
  /\ pos > Len(response)
  /\ \E st \in StructureAnswers :
       LET out == ForestOutput(st) IN
       /\ structure' = st
       /\ output' = out.lines
       /\ foldersCount' = out.folders
  /\ result' = "ok"
  /\ phase' = "done"
  /\ UNCHANGED <<sideVars, otherCall, rootedVars, mode, issueMap, issueOrder, epicMap, epicOrder, coversMap,
                 parentMap, response, pos, epicKeysToFetch, epicsFetched, linksRead,
                 lookups, failed>>

NextForest ==
  \/ SearchFail
  \/ QueryIssue
  \/ EpicQuery
  \/ EpicFetchOk
  \/ EpicFetchFail
  \/ EpicFetchEnd
  \/ RelEpicLink
  \/ RelLink
  \/ RelNext
  \/ RenderForest

SpecForest == InitForest /\ [][NextForest]_vars

(***************************************************************************)
(* Forest mode with long lists: the state in which the relationship loop   *)
(* has ended for a query result of n records M1..Mn that are the members   *)
(* of one epic, or n tasks without epic, or the n children of one task     *)
(***************************************************************************)
MemberKey(i) == "M" \o ToString(i)
Members(n) == [i \in 1..n |-> MemberKey(i)]
ListShapes == {"members", "roots", "children"}

InitCapped ==
  \E n \in 0..MaxMembers, shape \in ListShapes, epicOk \in BOOLEAN, nested \in BOOLEAN :
    LET ms == Members(n)
        D == Keys \cup Range(ms)
        none == [k \in D |-> <<>>]
        grouped == shape = "members" /\ n > 0
    IN
    /\ (shape # "members" \/ n = 0) => (epicOk /\ ~nested)
    /\ nested => n >= 2
    /\ mode = "forest"
    /\ phase = "relEpic"
    /\ rootKey = None
    /\ maxDepth = 0
    /\ includeEpic = FALSE
    /\ response = IF shape = "children" THEN <<"T1">> ELSE ms
    /\ pos = (IF shape = "children" THEN 1 ELSE n) + 1
    /\ issueMap = [k \in D |->
         CASE k \in Range(ms) ->
                IssueRecord(IF shape = "children" THEN "stub" ELSE "query", k,
                            IF shape = "members" THEN "E1" ELSE None)
           [] k = "T1" /\ shape = "children" -> IssueRecord("query", k, None)
           [] k = "E1" /\ grouped /\ epicOk -> IssueRecord("fetched", k, None)
           [] OTHER -> Absent]
    /\ issueOrder = CASE shape = "children" -> <<"T1">> \o ms
                      [] grouped /\ epicOk -> ms \o <<"E1">>
                      [] OTHER -> ms
    /\ epicMap = IF grouped THEN [none EXCEPT !["E1"] = ms] ELSE none
    /\ epicOrder = IF grouped THEN <<"E1">> ELSE <<>>
    /\ coversMap = IF nested THEN [none EXCEPT ![ms[1]] = <<ms[n]>>] ELSE none
    /\ parentMap = IF shape = "children" THEN [none EXCEPT !["T1"] = ms] ELSE none
    /\ visited = {}
    /\ stack = <<>>
    /\ epicKeysToFetch = IF grouped THEN <<"E1">> ELSE <<>>
    /\ epicsFetched = {}
    /\ structure = NoStructure
    /\ foldersCount = 0
    /\ linksRead = IF shape = "children" THEN n ELSE IF nested THEN 1 ELSE 0
    /\ lookups = [k \in D |-> IF k = "E1" /\ grouped THEN 1 ELSE 0]
    /\ failed = IF grouped /\ ~epicOk THEN {"E1"} ELSE {}
    /\ output = <<>>
    /\ result = "none"
    /\ otherCall = NoCall
    /\ CompleteIdle /\ AssigneeIdle /\ StartupIdle /\ SessionIdle /\ EndpointIdle

NextCapped == RenderForest

SpecCapped == InitCapped /\ [][NextCapped]_vars

(***************************************************************************)
(* Two rooted calls on one service instance.  The maps, issueMap and       *)
(* visited are `const` locals of each call; a call that waits for getIssue *)
(* is suspended while the other one runs.  The records that the first call *)
(* reads list one issue link in total, those of the second call none.      *)
(***************************************************************************)
\* the locals of the running call
Locals ==
  [mode |-> mode,
   phase |-> phase,
   rootKey |-> rootKey,
   maxDepth |-> maxDepth,
   includeEpic |-> includeEpic,
   issueMap |-> issueMap,
   issueOrder |-> issueOrder,
   epicMap |-> epicMap,
   epicOrder |-> epicOrder,
   coversMap |-> coversMap,
   parentMap |-> parentMap,
   visited |-> visited,
   stack |-> stack,
   response |-> response,
   pos |-> pos,
   epicKeysToFetch |-> epicKeysToFetch,
   epicsFetched |-> epicsFetched,
   structure |-> structure,
   foldersCount |-> foldersCount,
   linksRead |-> linksRead,
   lookups |-> lookups,
   failed |-> failed,
   output |-> output,
   result |-> result]

\* the locals of a call of getIssueHierarchyFromRoot that has not started
NewCall(key, depth, epic, read) ==
  [mode |-> "rooted", phase |-> "fetch", rootKey |-> key, maxDepth |-> depth,
   includeEpic |-> epic, issueMap |-> [k \in Keys |-> Absent], issueOrder |-> <<>>,
   epicMap |-> EmptyMap, epicOrder |-> <<>>, coversMap |-> EmptyMap, parentMap |-> EmptyMap,
   visited |-> {}, stack |-> <<Frame(key, 0, "call")>>, response |-> <<>>, pos |-> 0,
   epicKeysToFetch |-> <<>>, epicsFetched |-> {}, structure |-> NoStructure,
   foldersCount |-> 0, linksRead |-> read, lookups |-> [k \in Keys |-> 0],
   failed |-> {}, output |-> <<>>, result |-> "none"]

StartAs(c) ==
  /\ mode = c.mode
  /\ phase = c.phase
  /\ rootKey = c.rootKey
  /\ maxDepth = c.maxDepth
  /\ includeEpic = c.includeEpic
  /\ issueMap = c.issueMap
  /\ issueOrder = c.issueOrder
  /\ epicMap = c.epicMap
  /\ epicOrder = c.epicOrder
  /\ coversMap = c.coversMap
  /\ parentMap = c.parentMap
  /\ visited = c.visited
  /\ stack = c.stack
  /\ response = c.response
  /\ pos = c.pos
  /\ epicKeysToFetch = c.epicKeysToFetch
  /\ epicsFetched = c.epicsFetched
  /\ structure = c.structure
  /\ foldersCount = c.foldersCount
  /\ linksRead = c.linksRead
  /\ lookups = c.lookups
  /\ failed = c.failed
  /\ output = c.output
  /\ result = c.result

\* variant of Resume: the Set visited belongs to the service, not to the call
Resume_SharedVisited(c) ==
  /\ mode' = c.mode
  /\ phase' = c.phase
  /\ rootKey' = c.rootKey
  /\ maxDepth' = c.maxDepth
  /\ includeEpic' = c.includeEpic
  /\ issueMap' = c.issueMap
  /\ issueOrder' = c.issueOrder
  /\ epicMap' = c.epicMap
  /\ epicOrder' = c.epicOrder
  /\ coversMap' = c.coversMap
  /\ parentMap' = c.parentMap
  /\ visited' = visited
  /\ stack' = c.stack
  /\ response' = c.response
  /\ pos' = c.pos
  /\ epicKeysToFetch' = c.epicKeysToFetch
  /\ epicsFetched' = c.epicsFetched
  /\ structure' = c.structure
  /\ foldersCount' = c.foldersCount
  /\ linksRead' = c.linksRead
  /\ lookups' = c.lookups
  /\ failed' = c.failed
  /\ output' = c.output
  /\ result' = c.result

\* the suspended call continues with its own locals
Resume(c) ==
  /\ mode' = c.mode
  /\ phase' = c.phase
  /\ rootKey' = c.rootKey
  /\ maxDepth' = c.maxDepth
  /\ includeEpic' = c.includeEpic
  /\ issueMap' = c.issueMap
  /\ issueOrder' = c.issueOrder
  /\ epicMap' = c.epicMap
  /\ epicOrder' = c.epicOrder
  /\ coversMap' = c.coversMap
  /\ parentMap' = c.parentMap
  /\ visited' = c.visited
  /\ stack' = c.stack
  /\ response' = c.response
  /\ pos' = c.pos
  /\ epicKeysToFetch' = c.epicKeysToFetch
  /\ epicsFetched' = c.epicsFetched
  /\ structure' = c.structure
  /\ foldersCount' = c.foldersCount
  /\ linksRead' = c.linksRead
  /\ lookups' = c.lookups
  /\ failed' = c.failed
  /\ output' = c.output
  /\ result' = c.result

\* the running call waits for getIssue, or has returned
Suspended ==
  \/ phase = "done"
  \/ phase = "fetch" /\ stack # <<>> /\ Top.stage = "call" /\ ~FetchGuard(Top.key, Top.depth)

InitTwoCalls ==
  \E d1, d2 \in RequestedDepths, e1, e2 \in BOOLEAN :
    /\ StartAs(NewCall("T1", EffectiveMaxDepth(d1), e1, MaxLinks - 1))
    /\ otherCall = NewCall("T1", EffectiveMaxDepth(d2), e2, MaxLinks)
    /\ CompleteIdle /\ AssigneeIdle /\ StartupIdle /\ SessionIdle /\ EndpointIdle

\* the event loop switches to the other call
SwitchCall ==
  /\ otherCall # NoCall
  /\ Suspended
  /\ Resume(otherCall)
  /\ otherCall' = Locals
  /\ UNCHANGED sideVars

NextTwoCalls == NextRooted \/ SwitchCall

SpecTwoCalls == InitTwoCalls /\ [][NextTwoCalls]_vars

\* no hierarchy build is running
HierarchyIdle ==
  /\ mode = "idle"
  /\ phase = "idle"
  /\ rootKey = None
  /\ maxDepth = 0
  /\ includeEpic = FALSE
  /\ issueMap = [k \in Keys |-> Absent]
  /\ issueOrder = <<>>
  /\ epicMap = EmptyMap
  /\ epicOrder = <<>>
  /\ coversMap = EmptyMap
  /\ parentMap = EmptyMap
  /\ visited = {}
  /\ stack = <<>>
  /\ response = <<>>
  /\ pos = 0
  /\ epicKeysToFetch = <<>>
  /\ epicsFetched = {}
  /\ structure = NoStructure
  /\ foldersCount = 0
  /\ linksRead = 0
  /\ lookups = [k \in Keys |-> 0]
  /\ failed = {}
  /\ output = <<>>
  /\ result = "none"
  /\ otherCall = NoCall

(***************************************************************************)
(* IssueService.completeIssue                                              *)
(***************************************************************************)
\* status names: "Zakryt" is 'Закрыт', "Gotovo" is 'Готово', "VRabote" is
\* 'В работе'; "Resolved" is a Done-category status outside the allowed list
Statuses == {"Canceled", "Zakryt", "Gotovo", "VRabote", "Resolved"}

\* ALLOWED_STATUSES_FOR_COMPLETION (of its seven names the tracker here uses one)
AllowedStatuses == {"VRabote"}

\* status.statusCategory.key as the tracker reports it
CategoryOf(s) ==
  CASE s = "VRabote" -> "indeterminate"
    [] s = "Canceled" -> canceledCategory
    [] OTHER -> "done"

\* the workflows of the tracker: the statuses the transitions of a status lead to
Workflows ==
  {[s \in Statuses |-> CASE s = "Canceled" -> c [] s = "Zakryt" -> z
                         [] s = "VRabote" -> w [] OTHER -> {}] :
     c \in SUBSET {"Zakryt", "Gotovo"},
     z \in SUBSET {"Gotovo", "Canceled", "Resolved"},
     w \in SUBSET {"Gotovo", "Canceled"}}

notComplete == <<hierVars, assigneeVars, startupVars, sessionVars, endpointVars>>

InitComplete ==
  /\ params \in [issueKey : {None, "T1"}, confirm : BOOLEAN]
  /\ lastIssue \in {None, "T2"}
  /\ completePc = "start"
  /\ trackerStatus \in {"Canceled", "Zakryt", "VRabote", "Resolved"}
  /\ workflow \in Workflows
  /\ canceledCategory \in {"done", "new"}
  /\ currentStatus = None
  /\ requests = <<>>
  /\ chosen = None
  /\ completeResult = [kind |-> "none", key |-> None]
  /\ HierarchyIdle /\ AssigneeIdle /\ StartupIdle /\ SessionIdle /\ EndpointIdle

\* the local issueKey once it is resolved
IssueKey == IF params.issueKey # None THEN params.issueKey ELSE lastIssue

Request(op, to) == [op |-> op, key |-> IssueKey, to |-> to]
Answer(kind) == [kind |-> kind, key |-> IssueKey]

\* variant of ResolveKey: the last viewed issue is used without confirmation
ResolveKey_NoConfirm ==
  /\ completePc = "start"
  /\ IF params.issueKey = None /\ lastIssue = None
     THEN /\ completeResult' = [kind |-> "usage", key |-> None]
          /\ completePc' = "done"
     ELSE /\ completePc' = "read"
          /\ UNCHANGED completeResult
  /\ UNCHANGED <<notComplete, params, lastIssue, trackerStatus, workflow,
                 canceledCategory, currentStatus, requests, chosen>>

\* if (!issueKey) { lastIssue = getLastIssue(); ... if (!params.confirm) ... }
ResolveKey ==
  /\ completePc = "start"
  /\ IF params.issueKey = None /\ lastIssue = None
     THEN /\ completeResult' = [kind |-> "usage", key |-> None]
          /\ completePc' = "done"
     ELSE IF params.issueKey = None /\ ~params.confirm
     THEN /\ completeResult' = [kind |-> "confirmRequest", key |-> lastIssue]
          /\ completePc' = "done"
     ELSE /\ completePc' = "read"
          /\ UNCHANGED completeResult
  /\ UNCHANGED <<notComplete, params, lastIssue, trackerStatus, workflow,
                 canceledCategory, currentStatus, requests, chosen>>

\* const issue = await this.apiClient.getIssue(issueKey, ...)
ReadIssue ==
  /\ completePc = "read"
  /\ requests' = Append(requests, Request("getIssue", None))
  /\ currentStatus' = trackerStatus
  /\ completePc' = IF trackerStatus = "Canceled" /\ CategoryOf(trackerStatus) = "done"
                   THEN "first" ELSE "reread"
  /\ UNCHANGED <<notComplete, params, lastIssue, trackerStatus, workflow,
                 canceledCategory, chosen, completeResult>>

\* variant of CanceledFirst: the transition to 'Закрыт' is never looked for
CanceledFirst_Skip ==
  /\ completePc = "first"
  /\ requests' = Append(requests, Request("getTransitions", None))
  /\ completePc' = "reread"
  /\ UNCHANGED <<notComplete, params, lastIssue, trackerStatus, workflow,
                 canceledCategory, currentStatus, chosen, completeResult>>

\* transitions1 = getIssueTransitions(...); closeTransition = find(to.name === 'Закрыт')
CanceledFirst ==
  /\ completePc = "first"
  /\ requests' = Append(requests, Request("getTransitions", None))
  /\ completePc' = IF "Zakryt" \in workflow[trackerStatus] THEN "close" ELSE "reread"
  /\ UNCHANGED <<notComplete, params, lastIssue, trackerStatus, workflow,
                 canceledCategory, currentStatus, chosen, completeResult>>

\* await transitionIssue(issueKey, closeTransition.id, ...), in either place
CloseIssue ==
  /\ completePc \in {"close", "closeAgain"}
  /\ requests' = Append(requests, Request("transition", "Zakryt"))
  /\ trackerStatus' = "Zakryt"
  /\ completePc' = IF completePc = "close" THEN "reread" ELSE "afterClosed"
  /\ UNCHANGED <<notComplete, params, lastIssue, workflow, canceledCategory,
                 currentStatus, chosen, completeResult>>

\* updatedIssue = getIssue(...); the allowed-status test
RereadIssue ==
  /\ completePc = "reread"
  /\ requests' = Append(requests, Request("getIssue", None))
  /\ IF trackerStatus \notin AllowedStatuses /\ trackerStatus # "Zakryt"
     THEN /\ completeResult' = Answer("error")
          /\ completePc' = "done"
     ELSE /\ completePc' = "find"
          /\ UNCHANGED completeResult
  /\ UNCHANGED <<notComplete, params, lastIssue, trackerStatus, workflow,
                 canceledCategory, currentStatus, chosen>>

\* transitions = getIssueTransitions(...); doneTransition / doneCategoryTransition
FindTransition ==
  /\ completePc = "find"
  /\ requests' = Append(requests, Request("getTransitions", None))
  /\ LET offered == workflow[trackerStatus]
         doneOnes == {t \in offered : CategoryOf(t) = "done"}
     IN IF "Gotovo" \in offered
        THEN /\ completePc' = "ready"
             /\ UNCHANGED <<chosen, completeResult>>
        ELSE IF doneOnes = {}
        THEN /\ completeResult' = Answer("error")
             /\ completePc' = "done"
             /\ UNCHANGED chosen
        ELSE /\ chosen' \in doneOnes
             /\ completePc' = "category"
             /\ UNCHANGED completeResult
  /\ UNCHANGED <<notComplete, params, lastIssue, trackerStatus, workflow,
                 canceledCategory, currentStatus>>

\* await transitionIssue(issueKey, doneTransition.id / readyTransition.id, ...)
TransitionReady ==
  /\ completePc \in {"ready", "readyAgain"}
  /\ requests' = Append(requests, Request("transition", "Gotovo"))
  /\ trackerStatus' = "Gotovo"
  /\ completeResult' = Answer("success")
  /\ completePc' = "done"
  /\ UNCHANGED <<notComplete, params, lastIssue, workflow, canceledCategory,
                 currentStatus, chosen>>

\* await transitionIssue(issueKey, doneCategoryTransition.id, ...)
TransitionCategory ==
  /\ completePc = "category"
  /\ requests' = Append(requests, Request("transition", chosen))
  /\ trackerStatus' = chosen
  /\ IF chosen = "Canceled"
     THEN /\ completePc' = "afterCanceled"
          /\ UNCHANGED completeResult
     ELSE /\ completeResult' = Answer("success")
          /\ completePc' = "done"
  /\ UNCHANGED <<notComplete, params, lastIssue, workflow, canceledCategory,
                 currentStatus, chosen>>

\* transitionsAfterCanceled / transitionsAfterClosed: the next transition is
\* looked for; when it is missing the call falls through to the success answer
AfterTransition ==
  /\ completePc \in {"afterCanceled", "afterClosed"}
  /\ requests' = Append(requests, Request("getTransitions", None))
  /\ LET wanted == IF completePc = "afterCanceled" THEN "Zakryt" ELSE "Gotovo"
         next == IF completePc = "afterCanceled" THEN "closeAgain" ELSE "readyAgain"
     IN IF wanted \in workflow[trackerStatus]
        THEN /\ completePc' = next
             /\ UNCHANGED completeResult
        ELSE /\ completeResult' = Answer("success")
             /\ completePc' = "done"
  /\ UNCHANGED <<notComplete, params, lastIssue, trackerStatus, workflow,
                 canceledCategory, currentStatus, chosen>>

\* a request to the tracker throws: the catch rethrows 'Failed to complete issue'
RequestFails ==
  /\ completePc \notin {"idle", "start", "done"}
  /\ completeResult' = Answer("failed")
  /\ completePc' = "done"
  /\ UNCHANGED <<notComplete, params, lastIssue, trackerStatus, workflow,
                 canceledCategory, currentStatus, requests, chosen>>

NextComplete ==
  \/ ResolveKey
  \/ ReadIssue
  \/ CanceledFirst
  \/ CloseIssue
  \/ RereadIssue
  \/ FindTransition
  \/ TransitionReady
  \/ TransitionCategory
  \/ AfterTransition
  \/ RequestFails

SpecComplete == InitComplete /\ [][NextComplete]_vars

(***************************************************************************)
(* Start-up: validateEnvironment and the JiraApiClient constructor         *)
(***************************************************************************)
\* process.env: a variable is "unset" (undefined or empty), or set to a value
\* that has ("valid") or has not ("invalid") the format validation checks
Environments ==
  [JIRA_BASE_URL : {"unset", "invalid", "valid"},
   JIRA_EMAIL : {"unset", "invalid", "valid"},
   JIRA_API_TOKEN : {"unset", "valid"},
   JIRA_BEARER_TOKEN : {"unset", "valid"},
   JIRA_SESSION_COOKIES : {"unset", "valid"}]

\* !process.env[name]
Missing(e, name) == e[name] = "unset"

\* validateEnvironment(): "ok" when it returns, "throws" otherwise
validateEnvironment(e) ==
  IF ~Missing(e, "JIRA_SESSION_COOKIES")
  THEN IF Missing(e, "JIRA_BASE_URL") THEN "throws" ELSE "ok"
  ELSE IF ~Missing(e, "JIRA_BEARER_TOKEN") /\ Missing(e, "JIRA_BASE_URL") THEN "throws"
  ELSE IF Missing(e, "JIRA_BEARER_TOKEN") /\
          \E name \in {"JIRA_BASE_URL", "JIRA_EMAIL", "JIRA_API_TOKEN"} : Missing(e, name)
       THEN "throws"
  ELSE IF e["JIRA_BASE_URL"] = "invalid" THEN "throws"
  ELSE IF Missing(e, "JIRA_BEARER_TOKEN") /\ e["JIRA_EMAIL"] = "invalid" THEN "throws"
  ELSE "ok"

\* getJiraConfig(), called by the constructor: "ok" when it returns
getJiraConfig(e) ==
  IF ~Missing(e, "JIRA_BEARER_TOKEN")
  THEN IF Missing(e, "JIRA_BASE_URL") THEN "throws" ELSE "ok"
  ELSE IF Missing(e, "JIRA_BASE_URL") \/ Missing(e, "JIRA_EMAIL") \/ Missing(e, "JIRA_API_TOKEN")
       THEN "throws"
  ELSE "ok"

notStartup == <<hierVars, completeVars, assigneeVars, sessionVars, endpointVars>>

InitStartup ==
  /\ env \in Environments
  /\ validation = "none"
  /\ construction = "none"
  /\ HierarchyIdle /\ CompleteIdle /\ AssigneeIdle /\ SessionIdle /\ EndpointIdle

\* validateEnvironment()
Validate ==
  /\ env # <<>> /\ validation = "none"
  /\ validation' = validateEnvironment(env)
  /\ UNCHANGED <<notStartup, env, construction>>

\* new JiraApiClient()
Construct ==
  /\ env # <<>> /\ construction = "none"
  /\ construction' = getJiraConfig(env)
  /\ UNCHANGED <<notStartup, env, validation>>

NextStartup == Validate \/ Construct

SpecStartup == InitStartup /\ [][NextStartup]_vars

(***************************************************************************)
(* StructureService.getStructureHierarchyByAssignee, for one structure     *)
(***************************************************************************)
ElementIds == <<"e1", "e2", "e3">>
ElementKeys == <<"T1", "T2", "T3">>

\* an element of hierarchy.elements: a folder, or the issue of a key
StructElement(i, folder, parentId) ==
  [id |-> ElementIds[i], folder |-> folder,
   issueKey |-> IF folder THEN None ELSE ElementKeys[i], parentId |-> parentId]

\* the hierarchies the Structure API can answer with: every element lies at
\* the top or below an element listed before it
Hierarchies ==
  {<<StructElement(1, f1, None), StructElement(2, f2, p2), StructElement(3, f3, p3)>> :
     f1 \in BOOLEAN, f2 \in BOOLEAN, f3 \in BOOLEAN,
     p2 \in {None, "e1"}, p3 \in {None, "e1", "e2"}}

\* private isFolder(element)
isFolder(el) == el.issueKey = None /\ el.folder

RECURSIVE hasActiveIssuesInSubtree(_, _, _)
hasActiveIssuesInSubtree(folderId, allElements, active) ==
  \E i \in 1..Len(allElements) :
     LET child == allElements[i] IN
     /\ child.parentId = folderId
     /\ IF isFolder(child)
        THEN hasActiveIssuesInSubtree(child.id, allElements, active)
        ELSE child.issueKey # None /\ child.issueKey \in active

\* hierarchy.elements.filter(...): folders with an active issue below, active issues
FilteredElements(els, active) ==
  SelectSeq(els, LAMBDA el :
     IF isFolder(el) THEN hasActiveIssuesInSubtree(el.id, els, active)
     ELSE el.issueKey # None /\ el.issueKey \in active)

Line(kind, el, level) == [kind |-> kind, id |-> el.id, key |-> el.issueKey, level |-> level]

\* buildTree(elements, parentId, level): the children of parentId among the
\* filtered elements, each followed by its own subtree
RECURSIVE buildTree(_, _, _), buildTreeFrom(_, _, _, _)
buildTree(els, parentId, level) == buildTreeFrom(els, parentId, level, 1)
buildTreeFrom(els, parentId, level, i) ==
  IF i > Len(els) THEN <<>>
  ELSE LET child == els[i]
           mine == child.parentId = parentId
       IN (IF mine
           THEN <<Line(IF isFolder(child) THEN "folder" ELSE "issue", child, level)>>
                  \o buildTree(els, child.id, level + 1)
           ELSE <<>>) \o buildTreeFrom(els, parentId, level, i + 1)

notAssignee == <<hierVars, completeVars, startupVars, sessionVars, endpointVars>>

InitAssignee ==
  /\ activeIssueKeys \in SUBSET TaskKeys
  /\ structElements \in Hierarchies \cup {<<>>}
  /\ hierarchyAnswer \in {"ok", "error"}
  /\ shown = <<>>
  /\ assigneePc = "start"
  /\ HierarchyIdle /\ CompleteIdle /\ StartupIdle /\ SessionIdle /\ EndpointIdle

\* if (activeIssueKeys.size === 0) return 'Активных задач не найдено'
ShowNoActive ==
  /\ assigneePc = "start"
  /\ activeIssueKeys = {}
  /\ assigneePc' = "noActive"
  /\ UNCHANGED <<notAssignee, activeIssueKeys, structElements, hierarchyAnswer, shown>>

\* the structure is skipped (`continue`) when its lookup throws, it has no
\* elements, or the filter keeps none
Skipped ==
  \/ hierarchyAnswer = "error"
  \/ structElements = <<>>
  \/ FilteredElements(structElements, activeIssueKeys) = <<>>

\* the tree of the structure is printed below its heading
ShowStructure ==
  /\ assigneePc = "start"
  /\ activeIssueKeys # {}
  /\ ~Skipped
  /\ shown' = buildTree(FilteredElements(structElements, activeIssueKeys), None, 0)
  /\ assigneePc' = "shown"
  /\ UNCHANGED <<notAssignee, activeIssueKeys, structElements, hierarchyAnswer>>

\* if (!foundInStructures): the active issues are listed without hierarchy
ShowFallback ==
  /\ assigneePc = "start"
  /\ activeIssueKeys # {}
  /\ Skipped
  /\ shown' = SelectSeq(<<[kind |-> "listed", id |-> None, key |-> "T1", level |-> 0],
                          [kind |-> "listed", id |-> None, key |-> "T2", level |-> 0],
                          [kind |-> "listed", id |-> None, key |-> "T3", level |-> 0]>>,
                        LAMBDA l : l.key \in activeIssueKeys)
  /\ assigneePc' = "notFound"
  /\ UNCHANGED <<notAssignee, activeIssueKeys, structElements, hierarchyAnswer>>

NextAssignee == ShowNoActive \/ ShowStructure \/ ShowFallback

SpecAssignee == InitAssignee /\ [][NextAssignee]_vars

(***************************************************************************)
(* JiraApiClient: the cookie session                                       *)
(***************************************************************************)
\* manualCookies.trim(): "blank" is a value of white space only
Trimmed(c) == IF c = "set" THEN "cookies" ELSE ""

\* the test of ensureSession and of the first line of initializeSession
NeedsSession == ~sessionInitialized \/ sessionCookies = ""

(***************************************************************************)
(* JiraApiClient.getStructureHierarchy                                     *)
(***************************************************************************)
\* const endpoints = [...]: twelve candidates, the first four are /tree
EndpointCount == 12
TreeEndpoints == 4

\* answers after which the loop goes on with the next endpoint
SkipAnswers == {"notFound", "html", "login", "sessionNotFound"}
\* what an iteration can meet: ensureSession throws (with or without 404 /
\* 'Not Found' in its message); the fetch answers JSON, an empty body, HTML,
\* a 404, a redirect to login.jsp (seen on /tree only, where redirects are
\* manual), or fails otherwise
FetchAnswers(i) ==
  {"json", "empty", "html", "notFound", "error"} \cup
  (IF i <= TreeEndpoints THEN {"login"} ELSE {})

notEndpoint == <<hierVars, completeVars, assigneeVars, startupVars>>

InitEndpoints ==
  /\ manualCookies \in {"none", "blank", "set"}
  /\ sessionInitialized \in BOOLEAN
  /\ sessionCookies = IF sessionInitialized /\ manualCookies # "blank" THEN "cookies" ELSE ""
  /\ exchanges = 0
  /\ reqs = <<>>
  /\ endpointIdx = 1
  /\ lastError = "none"
  /\ tried = <<>>
  /\ answer = "none"
  /\ hierarchyResult = "none"
  /\ HierarchyIdle /\ CompleteIdle /\ AssigneeIdle /\ StartupIdle

\* variant of Outcome: the catch goes on with the next endpoint after every error
Outcome_SkipErrors(a) ==
  CASE a = "json" -> "json"
    [] a = "empty" -> "emptyElements"
    [] OTHER -> "none"

\* what the iteration does with an answer: return, continue, or throw
Outcome(a) ==
  CASE a = "json" -> "json"
    [] a = "empty" -> "emptyElements"
    [] a \in SkipAnswers -> "none"
    [] OTHER -> "throws"

\* one iteration of `for (const endpointInfo of endpoints)` in which
\* ensureSession throws: the catch of the iteration handles the error
SessionFails ==
  /\ hierarchyResult = "none"
  /\ endpointIdx \in 1..EndpointCount
  /\ NeedsSession /\ manualCookies = "none"
  /\ exchanges' = exchanges + 1
  /\ \E a \in {"sessionNotFound", "sessionError"} :
       /\ answer' = a
       /\ lastError' = a
       /\ hierarchyResult' = Outcome(a)
       /\ endpointIdx' = IF Outcome(a) = "none" THEN endpointIdx + 1 ELSE endpointIdx
  /\ UNCHANGED <<notEndpoint, manualCookies, sessionInitialized, sessionCookies, reqs, tried>>

\* one iteration in which ensureSession returns and the endpoint is fetched
TryEndpoint ==
  /\ hierarchyResult = "none"
  /\ endpointIdx \in 1..EndpointCount
  /\ LET manual == NeedsSession /\ manualCookies # "none"
         exchange == NeedsSession /\ manualCookies = "none"
         cookies == IF manual THEN Trimmed(manualCookies)
                    ELSE IF exchange THEN "cookies" ELSE sessionCookies
     IN
     /\ exchanges' = IF exchange THEN exchanges + 1 ELSE exchanges
     /\ sessionInitialized' = TRUE
     /\ \E a \in FetchAnswers(endpointIdx) :
          /\ answer' = a
          /\ tried' = Append(tried, endpointIdx)
          \* a redirect answer can carry Set-Cookie, merged into sessionCookies
          /\ sessionCookies' \in IF a = "login" THEN {cookies, "cookies"} ELSE {cookies}
          /\ lastError' = IF Outcome(a) = "json" \/ Outcome(a) = "emptyElements"
                          THEN lastError ELSE a
          /\ hierarchyResult' = Outcome(a)
          /\ endpointIdx' = IF Outcome(a) = "none" THEN endpointIdx + 1 ELSE endpointIdx
  /\ UNCHANGED <<notEndpoint, manualCookies, reqs>>

\* after the loop: return { elements: [] }
ReturnEmptyElements ==
  /\ hierarchyResult = "none"
  /\ endpointIdx = EndpointCount + 1
  /\ hierarchyResult' = "emptyElements"
  /\ UNCHANGED <<notEndpoint, sessionVars, endpointIdx, lastError, tried, answer>>

NextEndpoints == SessionFails \/ TryEndpoint \/ ReturnEmptyElements

SpecEndpoints == InitEndpoints /\ [][NextEndpoints]_vars

(***************************************************************************)
(* JiraApiClient.makeRequest with useStructureApi, called concurrently     *)
(***************************************************************************)
\* the Structure API requests in flight on one client
RequestIds == {"r1", "r2", "r3"}

notSession == <<hierVars, completeVars, assigneeVars, startupVars, endpointVars>>

InitSession ==
  /\ manualCookies \in {"none", "blank", "set"}
  /\ sessionInitialized = FALSE
  /\ sessionCookies = ""
  /\ exchanges = 0
  /\ reqs = [r \in RequestIds |-> "start"]
  /\ HierarchyIdle /\ CompleteIdle /\ AssigneeIdle /\ StartupIdle /\ EndpointIdle

\* await this.ensureSession(), up to the first await inside initializeSession:
\* the flags are tested, manual cookies are adopted at once, otherwise the
\* exchange with the server starts
EnsureSession(r) ==
  /\ reqs # <<>> /\ reqs[r] = "start"
  /\ IF ~NeedsSession
     THEN /\ reqs' = [reqs EXCEPT ![r] = "fetch"]
          /\ UNCHANGED <<sessionInitialized, sessionCookies, exchanges>>
     ELSE IF manualCookies # "none"
     THEN /\ sessionCookies' = Trimmed(manualCookies)
          /\ sessionInitialized' = TRUE
          /\ reqs' = [reqs EXCEPT ![r] = "fetch"]
          /\ UNCHANGED exchanges
     ELSE /\ exchanges' = exchanges + 1
          /\ reqs' = [reqs EXCEPT ![r] = "exchange"]
          /\ UNCHANGED <<sessionInitialized, sessionCookies>>
  /\ UNCHANGED <<notSession, manualCookies>>

\* the exchange ends: cookies are stored, or initializeSession throws and
\* makeRequest throws with it (the await is outside its try)
ExchangeEnds(r) ==
  /\ reqs # <<>> /\ reqs[r] = "exchange"
  /\ \E ok \in BOOLEAN :
       IF ok
       THEN /\ sessionCookies' = "cookies"
            /\ sessionInitialized' = TRUE
            /\ reqs' = [reqs EXCEPT ![r] = "fetch"]
       ELSE /\ reqs' = [reqs EXCEPT ![r] = "thrown"]
            /\ UNCHANGED <<sessionInitialized, sessionCookies>>
  /\ UNCHANGED <<notSession, manualCookies, exchanges>>

\* const response = await fetch(url, ...): an answer, a 302 / 401 (which
\* re-initializes and retries only while !sessionInitialized), or an error
Respond(r) ==
  /\ reqs # <<>> /\ reqs[r] = "fetch"
  /\ \E status \in {"ok", "unauthorized", "error"} :
       reqs' = [reqs EXCEPT ![r] =
                  CASE status = "ok" -> "returned"
                    [] status = "unauthorized" /\ ~sessionInitialized -> "retry"
                    [] OTHER -> "thrown"]
  /\ UNCHANGED <<notSession, manualCookies, sessionInitialized, sessionCookies, exchanges>>

NextSession == \E r \in RequestIds : EnsureSession(r) \/ ExchangeEnds(r) \/ Respond(r)

SpecSession == InitSession /\ [][NextSession]_vars

\* a call of either operation
Init == InitRooted \/ InitForest
Next == NextRooted \/ NextForest
Spec == Init /\ [][Next]_vars

(***************************************************************************)
(* Reading the rendered output                                             *)
(***************************************************************************)
IssueIdx(out) == {i \in 1..Len(out) : out[i].kind = "issue"}
Count(k, out) == Cardinality({i \in IssueIdx(out) : out[i].key = k})
Rendered(out) == {out[i].key : i \in IssueIdx(out)}

\* last index of the subtree printed below entry i
SubtreeEnd(out, i) ==
  LET stops == {j \in (i + 1)..Len(out) : out[j].level <= out[i].level}
  IN IF stops = {} THEN Len(out) ELSE (CHOOSE j \in stops : \A h \in stops : j <= h) - 1

\* keys printed one level below entry i, in print order
DirectChildren(out, i) ==
  LET span == SubSeq(out, i + 1, SubtreeEnd(out, i))
      IsDirect(e) == e.level = out[i].level + 1
  IN [j \in 1..Len(SelectSeq(span, IsDirect)) |-> SelectSeq(span, IsDirect)[j].key]

\* edges of the Containment and Coverage maps
LinkEdge(a, b) == Includes(parentMap[a], b) \/ Includes(coversMap[a], b)
RECURSIVE ReachIn(_, _)
ReachIn(S, n) == IF n = 0 THEN S
                 ELSE ReachIn(S \cup {b \in Keys : \E a \in S : LinkEdge(a, b)}, n - 1)
Descendants(a) == ReachIn({b \in Keys : LinkEdge(a, b)}, Cardinality(Keys))
Cyclic == \E k \in Keys : k \in Descendants(k)

Done == phase = "done"

(***************************************************************************)
(* C3: a rooted build over a cyclic link graph terminates, looks every key *)
(* up at most once (the root is never re-entered) and prints every key at  *)
(* most once; the members of a cycle through the root are each looked up   *)
(* exactly once.                                                           *)
(***************************************************************************)
C3_OnCycleOnce ==
  /\ \A k \in Keys : lookups[k] <= 1
  /\ \A k \in Keys : Count(k, output) <= 1
  /\ (Done /\ rootKey \in Descendants(rootKey) /\ maxDepth >= Cardinality(Keys)) =>
        \A b \in Descendants(rootKey) : lookups[b] = 1
  /\ (Done /\ result = "ok") =>
        \A b \in Keys : (LinkEdge(rootKey, b) /\ LinkEdge(b, rootKey)) =>
            /\ lookups[b] = 1 /\ lookups[rootKey] = 1
            /\ Count(rootKey, output) = 1
            /\ Has(b) => Count(b, output) = 1

\* variant of the call: every step of the fetch and the render lowers it
Variant ==
  (IF Done THEN 0 ELSE 1) + Len(stack)
  + 2 * Cardinality({i \in 1..Len(stack) : stack[i].stage = "epic"})
  + 2 * (MaxLinks - linksRead)
  + 3 * Cardinality(Keys \ visited)

\* C3: on every link graph, cyclic ones included, the rooted build never looks a
\* key up or prints it twice, is never stuck before its end, and every step
\* lowers the variant, so the recursive fetch and the render walk both end.
C3_CycleTerminates ==
  /\ [](C3_OnCycleOnce)
  /\ [](~Done => (stack = <<>> \/ Top.stage \in {"call", "epic", "links"}))
  /\ [][Variant' < Variant]_vars

C3_Witness ==
  /\ Done /\ result = "ok"
  /\ \E b \in Keys : /\ Includes(parentMap[rootKey], b) /\ Includes(parentMap[b], rootKey)
                     /\ Count(b, output) = 1

(***************************************************************************)
(* C5: for every maxDepth within its limits the rooted build answers       *)
(* NotFound exactly when the lookup of the starting key failed; failed     *)
(* lookups of other keys leave the result ok.                              *)
(***************************************************************************)
C5_NotFoundIffRootFails ==
  (Done /\ maxDepth \in MinDepthLimit..MaxDepthLimit) =>
     /\ result \in {"ok", "notfound"}
     /\ (result = "notfound") <=> (rootKey \in failed)

C5_Witness == Done /\ result = "ok" /\ failed # {} /\ Len(output) >= 2

(***************************************************************************)
(* C7: in rooted mode no node is printed deeper than maxDepth levels below *)
(* the root.                                                               *)
(***************************************************************************)
C7_DepthBound ==
  (mode = "rooted" /\ Done) => \A i \in IssueIdx(output) : output[i].level <= maxDepth

(***************************************************************************)
(* Sections of the forest output                                           *)
(***************************************************************************)
HeaderKinds == {"folder", "epic", "epicMissing", "roots"}
HeaderIdx(out) == {i \in 1..Len(out) : out[i].kind \in HeaderKinds}
\* the header that opens the section of entry i (0: the single tree of a rooted build)
SecOf(out, i) ==
  LET hs == {h \in HeaderIdx(out) : h < i}
  IN IF hs = {} THEN 0 ELSE CHOOSE h \in hs : \A g \in hs : g <= h

\* keys printed as tree roots below the "roots" header, in print order
RootSeq(out) ==
  LET IsRootEntry(e) == e.kind = "issue" /\ e.level = 0
      roots == SelectSeq(out, IsRootEntry)
  IN [j \in 1..Len(roots) |-> roots[j].key]

AllMembers == UNION {Range(epicMap[k]) : k \in Keys}
IndexOf(s, x) == CHOOSE i \in 1..Len(s) : s[i] = x

SpecChildren(k) == Dedup(epicMap[k] \o parentMap[k] \o coversMap[k])

C2_GroupContainmentCoverage ==
  Done => \A i \in IssueIdx(output) :
            LET kids == DirectChildren(output, i)
            IN kids = Restrict(SpecChildren(output[i].key), Range(kids))

(***************************************************************************)
(* C2 (amended): the children printed below a key follow the               *)
(* duplicate-free concatenation of its Coverage children, then its         *)
(* Containment children, each in discovery order; GroupLink members are    *)
(* not among them.                                                         *)
(***************************************************************************)
C2_CoverageThenContainment ==
  Done => \A i \in IssueIdx(output) :
            LET kids == DirectChildren(output, i)
            IN kids = Restrict(Dedup(coversMap[output[i].key] \o parentMap[output[i].key]),
                               Range(kids))

C2_Witness ==
  /\ Done
  /\ \E i \in IssueIdx(output) :
       LET kids == DirectChildren(output, i)
           k == output[i].key
       IN /\ Len(kids) = 2
          /\ Includes(coversMap[k], kids[1])
          /\ Includes(parentMap[k], kids[2]) /\ ~Includes(coversMap[k], kids[2])

(***************************************************************************)
(* C4: a key whose lookup failed and that a printed node links to appears  *)
(* in the output (marked unavailable).                                     *)
(***************************************************************************)
C4_FailedKeyIsPrinted ==
  (mode = "rooted" /\ Done /\ result = "ok") =>
     \A x \in failed : (\E p \in Rendered(output) : LinkEdge(p, x)) => x \in Rendered(output)

(***************************************************************************)
(* C6: when the structure lookup throws (404 or any other error) the       *)
(* forest build still answers, reports no folder and prints every epic     *)
(* section and every root exactly as without folders.                      *)
(***************************************************************************)
C6_GroupOnlyWhenUnavailable ==
  (mode = "forest" /\ Done /\ structure.status \in {"404", "error"}) =>
     /\ result = "ok"
     /\ foldersCount = 0
     /\ \A i \in 1..Len(output) : output[i].kind # "folder"
     /\ output = EpicSections(epicOrder, 1, FALSE) \o RootSection

C6_Witness ==
  /\ mode = "forest" /\ Done /\ structure.status = "error"
  /\ epicOrder # <<>> /\ RootTasks # <<>>
  /\ \E i \in IssueIdx(output) : output[i].level = 1
  /\ \E i \in IssueIdx(output) : output[i].level = 0

(***************************************************************************)
(* C8: a member Y of epic G that is also a descendant of a member X listed *)
(* before it is printed exactly once in each section of G, below X and not *)
(* as a direct member.                                                     *)
(***************************************************************************)
C8_NestedUnderEarlierMember ==
  (mode = "forest" /\ Done /\ result = "ok") =>
     \A h \in HeaderIdx(output) :
       output[h].kind \in {"epic", "epicMissing"} =>
         LET g == output[h].key
             span == (h + 1)..SubtreeEnd(output, h)
         IN \A x, y \in Range(epicMap[g]) :
              (IndexOf(epicMap[g], x) < IndexOf(epicMap[g], y) /\ y \in Descendants(x)) =>
                 /\ Cardinality({i \in span : output[i].kind = "issue" /\ output[i].key = y}) = 1
                 /\ \E ix, iy \in span :
                      /\ output[ix].kind = "issue" /\ output[ix].key = x
                      /\ output[iy].kind = "issue" /\ output[iy].key = y
                      /\ ix < iy /\ iy <= SubtreeEnd(output, ix)

(***************************************************************************)
(* C9 (as claimed): the roots of a forest build are exactly the keys of    *)
(* the query result that are no child in any map and no epic.              *)
(***************************************************************************)
RootCandidates(S) ==
  {k \in S : /\ k \notin AllMembers /\ k \notin AllChildKeys /\ k \notin AllCovered
             /\ ~Includes(epicOrder, k) /\ k \notin EpicKeys}

C9_RootsFromQuery ==
  (mode = "forest" /\ Done /\ result = "ok") =>
     Range(RootSeq(output)) = RootCandidates(Range(response))

(***************************************************************************)
(* C9 (amended): the roots of a forest build are exactly the keys of the   *)
(* node registry (the query result and the stubs taken from link payloads) *)
(* that are no child in any map and no epic; an epic is never a root.      *)
(***************************************************************************)
C9_RootsFromRegistry ==
  (mode = "forest" /\ Done /\ result = "ok") =>
     /\ Range(RootSeq(output)) = RootCandidates({k \in Keys : Has(k)})
     /\ \A k \in Range(RootSeq(output)) : issueMap[k].src \in {"query", "stub"}

C9_Witness ==
  /\ mode = "forest" /\ Done
  /\ \E k \in Range(RootSeq(output)) : issueMap[k].src = "stub"
  /\ \E k \in Range(RootSeq(output)) : issueMap[k].src = "query"

EpicHeaderKinds == {"epic", "epicMissing"}

\* name of the top-level folder above the folder element `id` of the answer
RECURSIVE TopFolderOf(_, _)
TopFolderOf(elements, id) ==
  LET e == elements[CHOOSE i \in 1..Len(elements) : elements[i].id = id]
  IN IF e.parentId = None THEN FolderName(e.id) ELSE TopFolderOf(elements, e.parentId)

\* top-level folders of the answer that hold a leaf element of key k
FoldersHolding(k) ==
  IF structure.status # "ok" THEN {}
  ELSE {TopFolderOf(structure.elements, structure.elements[i].parentId) :
          i \in {j \in 1..Len(structure.elements) : structure.elements[j].issueKey = k}}

\* top-level folders that hold the epic g or one of its members
FoldersOfGroup(g) == FoldersHolding(g) \cup UNION {FoldersHolding(m) : m \in Range(epicMap[g])}

\* the header of epic g is printed in the section of folder F
ListedUnder(out, g, F) ==
  \E h \in 1..Len(out) :
    /\ out[h].kind = "folder" /\ out[h].key = F
    /\ \E i \in (h + 1)..SubtreeEnd(out, h) : out[i].kind \in EpicHeaderKinds /\ out[i].key = g

\* the header of epic g is printed among the epics without folder
ListedUngrouped(out, g) ==
  \E i \in 1..Len(out) : out[i].kind \in EpicHeaderKinds /\ out[i].level = 0 /\ out[i].key = g

(***************************************************************************)
(* C11: every epic with at least one member is printed under each          *)
(* top-level folder that holds the epic itself or one of its members and   *)
(* under no other folder; it is printed among the epics without folder     *)
(* exactly when no folder holds it or a member - never both, never neither.*)
(***************************************************************************)
C11_FolderOrUngrouped ==
  (mode = "forest" /\ Done /\ result = "ok") =>
     \A g \in Keys : epicMap[g] # <<>> =>
        /\ \A F \in Range(FolderNamesSorted) :
              ListedUnder(output, g, F) <=> F \in FoldersOfGroup(g)
        /\ ListedUngrouped(output, g) <=> FoldersOfGroup(g) = {}

C11_Witness ==
  /\ mode = "forest" /\ Done /\ result = "ok"
  /\ \E g \in Keys :
       /\ Len(epicMap[g]) = 2
       /\ FoldersHolding(g) = {"F2"}
       /\ FoldersHolding(epicMap[g][2]) = {"F1"}
       /\ ListedUnder(output, g, "F1") /\ ListedUnder(output, g, "F2")
       /\ ~ListedUngrouped(output, g)

(***************************************************************************)
(* Reading the printed lists                                               *)
(***************************************************************************)
SpanOf(out, h) == (h + 1)..SubtreeEnd(out, h)

\* keys of the issue entries printed one level below entry h, in print order
MemberKids(out, h) ==
  LET IsKid(e) == e.kind = "issue" /\ e.level = out[h].level + 1
      kids == SelectSeq(SubSeq(out, h + 1, SubtreeEnd(out, h)), IsKid)
  IN [j \in 1..Len(kids) |-> kids[j].key]

\* counts of the remainder lines printed one level below entry h
MoreOf(out, h) ==
  LET IsMore(e) == e.kind = "more" /\ e.level = out[h].level + 1
      more == SelectSeq(SubSeq(out, h + 1, SubtreeEnd(out, h)), IsMore)
  IN [j \in 1..Len(more) |-> more[j].n]

PrintedIn(out, S, k) == \E i \in S : out[i].kind = "issue" /\ out[i].key = k

\* the list a header stands for and its display cap
ListOf(e) == IF e.kind = "roots" THEN RootTasks ELSE epicMap[e.key]
CapOf(e) == IF e.kind \in EpicHeaderKinds /\ e.level = 0 THEN EpicCap ELSE FolderCap
FirstN(L, N) == SubSeq(L, 1, Min(Len(L), N))

(***************************************************************************)
(* C12 (as claimed): every printed node - epic header or issue - with more *)
(* children than the display cap prints at most cap children, followed by  *)
(* a remainder line that counts the others.                                *)
(***************************************************************************)
C12_EveryNodeCapped ==
  (mode = "forest" /\ Done /\ result = "ok") =>
     \A i \in 1..Len(output) :
       output[i].kind \in EpicHeaderKinds \cup {"issue"} =>
         LET L == IF output[i].kind = "issue" THEN AllChildren(output[i].key)
                  ELSE epicMap[output[i].key]
             N == IF output[i].kind = "issue" THEN EpicCap ELSE CapOf(output[i])
         IN Len(L) > N => /\ Len(MemberKids(output, i)) <= N
                          /\ MoreOf(output, i) = <<Len(L) - N>>

(***************************************************************************)
(* C12 (amended): the cap applies to the member list of an epic whose      *)
(* members are printed (20 under a folder, 30 outside) and to the list of  *)
(* roots (20): only keys among the first N of the list are passed to the   *)
(* renderer, every registered one of them is printed in the section, and a *)
(* list longer than N is closed by one remainder line with Len - N.  The   *)
(* children of an issue node are never truncated, and an epic that is      *)
(* missing from the registry prints nothing below its header under a       *)
(* folder.                                                                 *)
(***************************************************************************)
C12_CapOnMemberLists ==
  (mode = "forest" /\ Done /\ result = "ok") =>
     /\ \A h \in HeaderIdx(output) :
          LET e == output[h]
              L == ListOf(e)
              N == CapOf(e)
              kids == MemberKids(output, h)
          IN CASE e.kind = "folder" -> TRUE
               [] e.kind = "epicMissing" /\ e.level = 1 ->
                    \A i \in SpanOf(output, h) : output[i].kind \in HeaderKinds
               [] OTHER ->
                    /\ kids = Restrict(FirstN(L, N), Range(kids))
                    /\ \A m \in Range(FirstN(L, N)) : Has(m) => PrintedIn(output, SpanOf(output, h), m)
                    /\ MoreOf(output, h) = IF Len(L) > N THEN <<Len(L) - N>> ELSE <<>>
                    /\ Len(L) > N => output[SubtreeEnd(output, h)].kind = "more"
     /\ \A j \in 1..Len(output) :
          output[j].kind = "more" => SecOf(output, j) # 0
                                     /\ output[j].level = output[SecOf(output, j)].level + 1
     /\ \A i \in IssueIdx(output) :
          \A c \in Range(AllChildren(output[i].key)) :
            Has(c) => \E j \in IssueIdx(output) :
                        output[j].key = c /\ SecOf(output, j) = SecOf(output, i)

C12_Witness ==
  /\ mode = "forest" /\ Done /\ result = "ok"
  /\ \E h \in HeaderIdx(output) :
       /\ output[h].kind = "epic" /\ output[h].level = 1
       /\ Len(epicMap[output[h].key]) = FolderCap + 2
       /\ Len(MemberKids(output, h)) = FolderCap
       /\ MoreOf(output, h) = <<2>>
       /\ coversMap[epicMap[output[h].key][1]] # <<>>

(***************************************************************************)
(* The state in which rendering begins: the recursive fetch has returned   *)
(* (rooted), the relationship loop has ended (forest)                      *)
(***************************************************************************)
RenderBegins ==
  \/ mode = "rooted" /\ phase = "fetch" /\ stack = <<>>
  \/ mode = "forest" /\ phase = "relEpic" /\ pos > Len(response)

\* an edge of one of the three adjacency maps
AnyEdge(a, b) == Includes(epicMap[a], b) \/ Includes(parentMap[a], b) \/ Includes(coversMap[a], b)

(***************************************************************************)
(* C13: when rendering begins, both endpoints of every edge of the epic,   *)
(* parent and covers maps have an entry in issueMap.                       *)
(***************************************************************************)
C13_EndpointsRegistered ==
  RenderBegins => \A a, b \in Keys : AnyEdge(a, b) => (Has(a) /\ Has(b))

(***************************************************************************)
(* C14: a getIssue call is never issued for a key that was looked up       *)
(* before in the same call or that already has an entry in issueMap (from  *)
(* the query result, a stub or an earlier lookup).                         *)
(***************************************************************************)
C14_NoRepeatedLookup ==
  [][\A k \in Keys : lookups'[k] # lookups[k] => (lookups[k] = 0 /\ ~Has(k))]_vars

(***************************************************************************)
(* Which edges the recursive fetch follows                                 *)
(***************************************************************************)
\* keys joined to the root by parent / covers edges, read in either direction
RECURSIVE LinkReach(_, _)
LinkReach(S, n) ==
  IF n = 0 THEN S
  ELSE LinkReach(S \cup {b \in Keys : \E a \in S : LinkEdge(a, b) \/ LinkEdge(b, a)}, n - 1)
LinkReachable == LinkReach({rootKey}, Cardinality(Keys))

\* this step records a parent / covers edge between the fetched key and x
EdgeAdded(x) ==
  \/ Includes(parentMap'[Top.key], x) /\ ~Includes(parentMap[Top.key], x)
  \/ Includes(parentMap'[x], Top.key) /\ ~Includes(parentMap[x], Top.key)
  \/ Includes(coversMap'[Top.key], x) /\ ~Includes(coversMap[Top.key], x)
  \/ Includes(coversMap'[x], Top.key) /\ ~Includes(coversMap[x], Top.key)

\* this step records the fetched key as a member of epic x
MemberAdded(x) == epicMap'[x] # epicMap[x]

\* this step calls fetchIssueHierarchy(x, depth + 1)
Calls(x) ==
  /\ Len(stack') = Len(stack) + 1
  /\ stack'[Len(stack')] = Frame(x, Top.depth + 1, "call")

(***************************************************************************)
(* C15: in rooted mode the fetch descends into the epic of an issue only   *)
(* when includeEpic is set; it descends into the other end of every parent *)
(* / covers link of a fetched issue that was not visited before, and the   *)
(* call looks the key up whenever its depth is within maxDepth.  With      *)
(* includeEpic unset every key looked up is joined to the root by parent / *)
(* covers links alone.                                                     *)
(***************************************************************************)
C15_FollowPolicy ==
  /\ []((mode = "rooted" /\ Done /\ ~includeEpic) =>
          \A k \in Keys : lookups[k] > 0 => k \in LinkReachable)
  /\ []((mode = "rooted" /\ Done /\ maxDepth >= Cardinality(RootedKeys)) =>
          \A a, b \in Keys : LinkEdge(a, b) => (lookups[a] = 1 /\ lookups[b] = 1))
  /\ [][(mode = "rooted" /\ phase = "fetch" /\ stack # <<>>) =>
          /\ (Top.stage = "epic" /\ Len(stack') > Len(stack)) => includeEpic
          /\ Top.stage = "epic" =>
                \A x \in Keys : (MemberAdded(x) /\ includeEpic /\ x \notin visited) => Calls(x)
          /\ Top.stage = "links" =>
                \A x \in Keys \ {Top.key} : (EdgeAdded(x) /\ x \notin visited) => Calls(x)
          /\ (Top.stage = "call" /\ Top.depth <= maxDepth /\ Top.key \notin visited) =>
                lookups'[Top.key] = lookups[Top.key] + 1
          /\ (Top.stage = "call" /\ Top.depth > maxDepth) => lookups' = lookups]_vars

C15_Witness ==
  /\ mode = "rooted" /\ Done /\ result = "ok" /\ ~includeEpic
  /\ \E e \in Keys : epicMap[e] # <<>> /\ lookups[e] = 0
  /\ \E b \in Keys : LinkEdge(rootKey, b) /\ lookups[b] = 1 /\ Has(b)

(***************************************************************************)
(* C16: the depth bound a rooted traversal uses lies within the limits of  *)
(* the tool schema, 1..20, whatever the caller supplied (10 when nothing   *)
(* was supplied).                                                          *)
(***************************************************************************)
C16_DepthWithinLimits ==
  (mode = "rooted" /\ Done) => maxDepth \in MinDepthLimit..MaxDepthLimit

(***************************************************************************)
(* Reading the adjacency lists                                             *)
(***************************************************************************)
NoDup(s) == Cardinality(Range(s)) = Len(s)

\* a step leaves every list of the map alone or appends one key that the list
\* did not hold
AppendOnly(m, n) ==
  \A k \in Keys : \/ n[k] = m[k]
                  \/ \E x \in Keys \ Range(m[k]) : n[k] = Append(m[k], x)

\* the records of the query result whose Epic Link has been read so far
Processed ==
  CASE phase = "relLinks" -> SubSeq(response, 1, pos)
    [] phase = "relEpic" -> SubSeq(response, 1, pos - 1)
    [] phase = "done" /\ result = "ok" -> response
    [] OTHER -> <<>>

MembersIn(g, records) ==
  LET LinksTo(k) == issueMap[k].epicLink = g IN SelectSeq(records, LinksTo)

(***************************************************************************)
(* C17: every list of the epic, parent and covers maps is duplicate-free   *)
(* and in discovery order: a step only ever appends one key that the list  *)
(* does not yet hold (a link reported again from the other end adds        *)
(* nothing), and in forest mode the members of an epic are exactly the     *)
(* processed records that link to it, in the order of the query result.    *)
(***************************************************************************)
C17_ListsInDiscoveryOrder ==
  /\ [](\A k \in Keys : NoDup(epicMap[k]) /\ NoDup(parentMap[k]) /\ NoDup(coversMap[k]))
  /\ [](mode = "forest" => \A g \in Keys : epicMap[g] = MembersIn(g, Processed))
  /\ [][/\ AppendOnly(epicMap, epicMap')
        /\ AppendOnly(parentMap, parentMap')
        /\ AppendOnly(coversMap, coversMap')]_vars

C17_Witness ==
  /\ mode = "forest" /\ Done /\ result = "ok"
  /\ response = <<"T2", "T1">>
  /\ epicMap["E1"] = <<"T2", "T1">>
  /\ linksRead = 2
  /\ parentMap["T1"] = <<"T2">>
  /\ \A k \in Keys : coversMap[k] = <<>> /\ (k # "T1" => parentMap[k] = <<>>)

C18_RegistryAppendOnly ==
  [][\A k \in Keys : Has(k) => issueMap'[k] = issueMap[k]]_vars

C18_Witness ==
  /\ mode = "forest" /\ Done /\ result = "ok"
  /\ "E1" \in Range(response) \cap epicsFetched
  /\ issueMap["E1"].src = "query"
  /\ \E k \in Range(response) :
       /\ k \in AllChildKeys \cup AllCovered
       /\ issueMap[k].src = "query"
  /\ \E k \in Keys : issueMap[k].src = "stub"

(***************************************************************************)
(* Lookups of a call: the issue query, the epic query, getIssue for epics  *)
(* and for linked issues, the structure lookup                             *)
(***************************************************************************)
\* every lookup the call has issued has answered
AllSettled ==
  /\ stack = <<>>
  /\ \A k \in Keys : lookups[k] = 1 => (Has(k) \/ k \in failed)
  /\ mode = "rooted" => \A k \in visited : lookups[k] = 1
  /\ mode = "forest" => /\ pos > Len(response)
                        /\ \A k \in Range(EpicsToFetch) : lookups[k] = 1
                        /\ structure.status \in {"ok", "404", "error"}

LookupsUnchanged ==
  /\ lookups' = lookups /\ failed' = failed
  /\ response' = response /\ epicsFetched' = epicsFetched
  /\ structure' = structure

C21_EpicFailureAbsorbed ==
  (mode = "forest" /\ Done /\ response # <<>>) =>
     /\ result = "ok"
     /\ \A g \in failed : epicMap[g] # <<>> =>
          \E h \in HeaderIdx(output) :
            /\ output[h].kind = "epicMissing" /\ output[h].key = g
            /\ \A m \in Range(FirstN(epicMap[g], FolderCap)) :
                 PrintedIn(output, SpanOf(output, h), m)

(***************************************************************************)
(* Keys within a number of followed links of the root                      *)
(***************************************************************************)
\* the traversal follows a link between a and b from a: a parent / covers
\* link is listed on both of its issues, an epic link on the member alone
Followed(a, b) ==
  \/ LinkEdge(a, b) \/ LinkEdge(b, a)
  \/ includeEpic /\ Includes(epicMap[b], a)

\* keys joined to a key of S by a chain of at most n followed links that runs
\* through issues whose lookup succeeded
RECURSIVE WithinLinks(_, _)
WithinLinks(S, n) ==
  IF n <= 0 THEN S
  ELSE WithinLinks(S \cup {b \in Keys : \E a \in S : Has(a) /\ Followed(a, b)}, n - 1)

(***************************************************************************)
(* C26: when a rooted fetch has ended, every key within maxDepth followed  *)
(* links of the root (through issues whose lookup succeeded) whose own      *)
(* lookup did not fail has an entry in issueMap.                           *)
(***************************************************************************)
C26_AllWithinDepthFetched ==
  (mode = "rooted" /\ Done /\ maxDepth >= 0 /\ rootKey \notin failed) =>
     \A k \in WithinLinks({rootKey}, Min(maxDepth, Cardinality(Keys))) :
        k \notin failed => Has(k)

(***************************************************************************)
(* C27: in a forest answer with no list longer than its display cap, every *)
(* task returned by the query is printed at least once: as a member of an  *)
(* epic section, nested under another issue, or as a root.                 *)
(***************************************************************************)
C27_EveryReturnedIssueRendered ==
  (mode = "forest" /\ Done /\ result = "ok") =>
     \A k \in Range(response) \cap TaskKeys : k \in Rendered(output)

(***************************************************************************)
(* C28: in a rooted answer every key of issueMap is printed in the tree,   *)
(* so the total the answer reports, Object.keys(issueMap).length, is the   *)
(* number of printed nodes.                                                *)
(***************************************************************************)
\* Object.keys(issueMap).length
TotalReported == Cardinality({k \in Keys : Has(k)})

C28_RegistryIsRendered ==
  (mode = "rooted" /\ Done /\ result = "ok") =>
     /\ \A k \in Keys : Has(k) => k \in Rendered(output)
     /\ TotalReported = Cardinality(Rendered(output))

(***************************************************************************)
(* completeIssue: observers                                                *)
(***************************************************************************)
CompleteDone == completePc = "done"
\* indices of the transition requests to status s
TransitionsTo(s) == {i \in 1..Len(requests) : requests[i].op = "transition" /\ requests[i].to = s}

(***************************************************************************)
(* C22: a completeIssue call without issueKey sends no request to the      *)
(* tracker unless a last viewed issue exists and confirm is set: with no   *)
(* last viewed issue it answers with the usage message, with one but       *)
(* without confirm it answers with a confirmation request that names it.   *)
(***************************************************************************)
C22_NoRequestWithoutConfirm ==
  (completePc # "idle" /\ params.issueKey = None /\ ~(lastIssue # None /\ params.confirm)) =>
     /\ requests = <<>>
     /\ CompleteDone =>
          completeResult = IF lastIssue = None
                           THEN [kind |-> "usage", key |-> None]
                           ELSE [kind |-> "confirmRequest", key |-> lastIssue]

C22_Witness ==
  /\ CompleteDone /\ params.issueKey = None /\ lastIssue = "T2" /\ ~params.confirm
  /\ completeResult = [kind |-> "confirmRequest", key |-> "T2"]

(***************************************************************************)
(* C23: for an issue the first read finds in Canceled, every transition    *)
(* request to 'Готово' comes after a transition request to 'Закрыт', and   *)
(* a success answer comes after a transition to a Done-category status.    *)
(* When Canceled is reported in the done category and the workflow offers  *)
(* Canceled -> 'Закрыт' and 'Закрыт' -> 'Готово', a call none of whose     *)
(* requests fails ends with success and the issue in 'Готово'.             *)
(***************************************************************************)
C23_CanceledThroughClosed ==
  (currentStatus = "Canceled") =>
     /\ \A i \in TransitionsTo("Gotovo") : \E j \in TransitionsTo("Zakryt") : j < i
     /\ completeResult.kind = "success" =>
          \E i \in 1..Len(requests) :
             requests[i].op = "transition" /\ CategoryOf(requests[i].to) = "done"
     /\ ( /\ CompleteDone /\ completeResult.kind # "failed"
          /\ canceledCategory = "done"
          /\ "Zakryt" \in workflow["Canceled"] /\ "Gotovo" \in workflow["Zakryt"] ) =>
          /\ completeResult.kind = "success"
          /\ trackerStatus = "Gotovo"
          /\ TransitionsTo("Zakryt") # {}

C23_Witness ==
  /\ CompleteDone /\ currentStatus = "Canceled" /\ completeResult.kind = "success"
  /\ trackerStatus = "Gotovo"
  /\ \E i \in TransitionsTo("Zakryt"), j \in TransitionsTo("Gotovo") : i < j

(***************************************************************************)
(* C25: every environment validateEnvironment accepts is accepted by the   *)
(* JiraApiClient constructor; with JIRA_SESSION_COOKIES set, validation    *)
(* requires JIRA_BASE_URL and nothing else.                                *)
(***************************************************************************)
C25_ValidationAgreesWithClient ==
  /\ (validation = "ok" /\ construction # "none") => construction = "ok"
  /\ (validation # "none" /\ ~Missing(env, "JIRA_SESSION_COOKIES")) =>
        (validation = "ok" <=> ~Missing(env, "JIRA_BASE_URL"))

(***************************************************************************)
(* C24: the tree printed for a structure holds every element of the        *)
(* structure that is an active issue of the assignee, whatever its parent  *)
(* element is, and no issue that is not active.                            *)
(***************************************************************************)
ShownKeys == {shown[i].key : i \in {j \in 1..Len(shown) : shown[j].kind # "folder"}}

C24_ActiveElementsShown ==
  (assigneePc = "shown") =>
     /\ \A i \in 1..Len(structElements) :
          (~isFolder(structElements[i]) /\ structElements[i].issueKey \in activeIssueKeys)
             => structElements[i].issueKey \in ShownKeys
     /\ ShownKeys \subseteq activeIssueKeys

(***************************************************************************)
(* getStructureHierarchy: observers                                        *)
(***************************************************************************)
LastTried == IF tried = <<>> THEN 0 ELSE tried[Len(tried)]

(***************************************************************************)
(* C29: getStructureHierarchy fetches its endpoints in the listed order,   *)
(* one per iteration.  A JSON answer is returned from the endpoint that    *)
(* gave it; after a 404, an HTML answer or a redirect to the login page    *)
(* the loop goes on with the next endpoint; any other error is thrown from *)
(* the iteration that met it; nothing is fetched after the call has        *)
(* answered; and when the loop runs out the answer is the empty element    *)
(* list.                                                                   *)
(***************************************************************************)
C29_EndpointFallback ==
  /\ [](hierarchyResult # "none" \/ endpointIdx > 0 =>
          /\ \A i \in 1..Len(tried) : tried[i] <= endpointIdx
          /\ \A i, j \in 1..Len(tried) : i < j => tried[i] < tried[j])
  /\ [](hierarchyResult = "json" => (answer = "json" /\ LastTried = endpointIdx))
  /\ []((hierarchyResult = "none" /\ answer \in SkipAnswers \ {"sessionNotFound"}) =>
          endpointIdx = LastTried + 1)
  /\ [](answer \in {"error", "sessionError"} =>
          (hierarchyResult = "throws" /\ LastTried <= endpointIdx /\ endpointIdx <= EndpointCount))
  /\ [](hierarchyResult = "throws" => answer \in {"error", "sessionError"})
  /\ [](hierarchyResult = "emptyElements" =>
          (answer = "empty" \/ (endpointIdx = EndpointCount + 1 /\ answer \in SkipAnswers)))
  /\ []((endpointIdx = EndpointCount + 1 /\ hierarchyResult # "none") =>
          hierarchyResult = "emptyElements")
  /\ [][hierarchyResult # "none" => (tried' = tried /\ endpointIdx' = endpointIdx)]_vars

C29_Witness ==
  /\ hierarchyResult = "json" /\ Len(tried) = EndpointCount /\ lastError = "notFound"

(***************************************************************************)
(* C30: on one client at most one session initialization goes to the       *)
(* server, whatever the interleaving of its Structure API requests; a      *)
(* request that is past ensureSession finds sessionInitialized set and     *)
(* sessionCookies non-empty, and no request reaches the re-initialize and  *)
(* retry branch of makeRequest.                                            *)
(***************************************************************************)
C30_SingleInitialization ==
  (reqs # <<>>) =>
     /\ exchanges <= 1
     /\ \A r \in RequestIds :
          /\ reqs[r] \in {"fetch", "returned"} => (sessionInitialized /\ sessionCookies # "")
          /\ reqs[r] # "retry"

====
